---------------------------- MODULE Spec2Model ----------------------------
(***************************************************************************)
(* A model of logAnon (src/main.py): the rules loader, the ignore matcher, *)
(* the scrubber, the per-file pipeline and the sanitise orchestrator.      *)
(*                                                                         *)
(* Text is a sequence of one-character strings: the pattern \d+ is         *)
(* <<"\\", "d", "+">>.  A file holds its decoded text.  A path is a        *)
(* sequence of components, a component a sequence of characters.           *)
(*                                                                         *)
(* The characters are those with the code points 1 to 255 but the grave    *)
(* accent (96); a text with another character has no value here.  Their    *)
(* properties (word, digit, white space, case) are those of Unicode, as    *)
(* str and re use them.                                                    *)
(***************************************************************************)
EXTENDS Integers, Sequences, FiniteSets, TLC

VARIABLES
    \* ---- the scrubber and the file pipeline, as pure functions ----
    value,            \* the input text
    rules,            \* List[SanitizerRule] of the sanitizer
    placeholder,      \* config.placeholder
    maintain_length,  \* config.maintain_length
    stage,            \* which of the calls below have been made
    scrubbed,         \* rules[0].scrub(value, placeholder, maintain_length)
    result,           \* _sanitise_file(value)
    rerun,            \* _sanitise_file(result)
    \* ---- the rules loader ----
    rules_file,       \* the rules file: [exists, content]
    load_error,       \* what _load_rules raised: [kind, line]
    \* ---- a run of main: the configuration, the file system, sanitise ----
    source_dir,       \* config.source_dir
    output_dir,       \* config.output_dir
    ignore_file,      \* the ignore file: [exists, content]
    ignore_patterns,  \* sanitizer.ignore_patterns
    files,            \* the regular files: path -> [content, readable]
    dirs,             \* the directories
    pc,               \* where the run is
    listing,          \* what is left of sorted(source_dir.rglob("*"))
    source_path,      \* the loop variable of sanitise
    \* ---- what the run did ----
    files0,           \* files when the run started
    dirs0,            \* dirs when the run started
    dispatched,       \* the regular, not ignored files sanitise enumerated
    attempted,        \* the files the loop body was entered for, in order
    read_log,         \* the files read, in order
    written,          \* the writes: [path, content], in order
    created,          \* the directories created
    failed,           \* the file whose processing raised, in a sequence
    vanished          \* the files the environment deleted during the run

scrubVars == <<value, rules, placeholder, maintain_length, stage, scrubbed,
               result, rerun>>
loadVars == <<rules_file, load_error>>

runVars == <<source_dir, output_dir, ignore_file, ignore_patterns, files,
             dirs, pc, listing, source_path>>
logVars == <<files0, dirs0, dispatched, attempted, read_log, written, created,
             failed, vanished>>

vars == <<scrubVars, loadVars, runVars, logVars>>

-----------------------------------------------------------------------------
(* Bounds of the model.                                                    *)

MaxLen == 4          \* longest enumerated input text
MaxRules == 2        \* longest enumerated rule list
MaxLines == 3        \* longest enumerated rules file
MaxVanish == 1       \* files the environment deletes during a run

-----------------------------------------------------------------------------
(* Characters.                                                             *)

\* The characters in code point order: 1 to 95 and 97 to 255.
Latin1 ==
    <<"", "", "", "", "", "", "", "", "\t", "\n", "", "\f", "\r",
      "", "", "", "", "", "", "", "", "", "", "", "", "", "",
      "", "", "", "", " ", "!", "\"", "#", "$", "%", "&", "'", "(",
      ")", "*", "+", ",", "-", ".", "/", "0", "1", "2", "3", "4", "5", "6",
      "7", "8", "9", ":", ";", "<", "=", ">", "?", "@", "A", "B", "C", "D",
      "E", "F", "G", "H", "I", "J", "K", "L", "M", "N", "O", "P", "Q", "R",
      "S", "T", "U", "V", "W", "X", "Y", "Z", "[", "\\", "]", "^", "_",
      "a", "b", "c", "d", "e", "f", "g", "h", "i", "j", "k", "l", "m", "n",
      "o", "p", "q", "r", "s", "t", "u", "v", "w", "x", "y", "z", "{", "|",
      "}", "~", "", "", "", "", "", "", "", "", "", "", "", "",
      "", "", "", "", "", "", "", "", "", "", "", "", "", "",
      "", "", "", "", "", "", "", " ", "¡", "¢", "£", "¤", "¥", "¦",
      "§", "¨", "©", "ª", "«", "¬", "­", "®", "¯", "°", "±", "²", "³", "´",
      "µ", "¶", "·", "¸", "¹", "º", "»", "¼", "½", "¾", "¿", "À", "Á", "Â",
      "Ã", "Ä", "Å", "Æ", "Ç", "È", "É", "Ê", "Ë", "Ì", "Í", "Î", "Ï", "Ð",
      "Ñ", "Ò", "Ó", "Ô", "Õ", "Ö", "×", "Ø", "Ù", "Ú", "Û", "Ü", "Ý", "Þ",
      "ß", "à", "á", "â", "ã", "ä", "å", "æ", "ç", "è", "é", "ê", "ë", "ì",
      "í", "î", "ï", "ð", "ñ", "ò", "ó", "ô", "õ", "ö", "÷", "ø", "ù", "ú",
      "û", "ü", "ý", "þ", "ÿ">>

Characters == {Latin1[i] : i \in 1..Len(Latin1)}

\* ord(c)
Code == [c \in Characters |->
            LET i == CHOOSE j \in 1..Len(Latin1) : Latin1[j] = c
            IN IF i <= 95 THEN i ELSE i + 1]

\* The characters with a code point in the set codes.
CodeSet(codes) == {c \in Characters : Code[c] \in codes}

Digits == CodeSet(48..57)
OctDigits == CodeSet(48..55)
HexDigits == CodeSet((48..57) \cup (65..70) \cup (97..102))
AsciiLetters == CodeSet((65..90) \cup (97..122))

\* The characters \w matches, and \b separates from the others: str.isalnum
\* or "_"; with the ASCII flag, [a-zA-Z0-9_].
WordChars ==
    CodeSet((48..57) \cup (65..90) \cup {95} \cup (97..122)
            \cup {170, 178, 179, 181, 185, 186, 188, 189, 190}
            \cup (192..214) \cup (216..246) \cup (248..255))
AsciiWordChars == Digits \cup AsciiLetters \cup {"_"}

\* str.isspace: what str.strip removes and \s matches; with the ASCII flag,
\* [ \t\n\r\f\v].
Whitespace == CodeSet((9..13) \cup (28..32) \cup {133, 160})
AsciiWhitespace == CodeSet((9..13) \cup {32})

\* The line boundaries of str.splitlines.
LineBreaks == CodeSet((10..13) \cup (28..30) \cup {133})

\* str.isidentifier: the first character of an identifier, and the others.
IdentifierStart ==
    CodeSet((65..90) \cup {95} \cup (97..122) \cup {170, 181, 186}
            \cup (192..214) \cup (216..246) \cup (248..255))
IdentifierContinue == IdentifierStart \cup Digits \cup CodeSet({183})

\* What int() strips from both ends of its argument.
IntWhitespace == CodeSet((9..13) \cup {32, 133, 160})

IsWord(c) == c \in WordChars

\* str * n
RECURSIVE Repeat(_, _)
Repeat(s, n) == IF n <= 0 THEN <<>> ELSE s \o Repeat(s, n - 1)

\* s[a:b], Python's half-open slice with 0-based indices, 0 <= a <= b <= len(s).
Slice(s, a, b) == SubSeq(s, a + 1, b)

\* int(digs, base), for digits of the base.
RECURSIVE Num(_, _)
Num(digs, base) ==
    IF digs = <<>> THEN 0
    ELSE LET c == digs[Len(digs)]
             v == IF c \in Digits THEN Code[c] - 48
                  ELSE IF Code[c] >= 97 THEN Code[c] - 87
                  ELSE Code[c] - 55
         IN Num(SubSeq(digs, 1, Len(digs) - 1), base) * base + v

\* s without the later occurrences of its elements: _uniq of the parser, and
\* the ends of a match in the order the engine finds them.
RECURSIVE Uniq(_)
Uniq(s) ==
    IF s = <<>> THEN <<>>
    ELSE LET r == Uniq(SubSeq(s, 1, Len(s) - 1))
             x == s[Len(s)]
         IN IF \E k \in 1..Len(r) : r[k] = x THEN r ELSE Append(r, x)

\* str < str, by code points
RECURSIVE StrLess(_, _)
StrLess(x, y) ==
    IF y = <<>> THEN FALSE
    ELSE IF x = <<>> THEN TRUE
    ELSE IF Head(x) = Head(y) THEN StrLess(Tail(x), Tail(y))
    ELSE Code[Head(x)] < Code[Head(y)]

-----------------------------------------------------------------------------
(* re.compile(rule_text), first half: the parser of the re module          *)
(* (re._parser), on a pattern given as its characters.  A parsed pattern   *)
(* is a sequence of items, as a SubPattern is:                             *)
(*   [op |-> "literal", code], [op |-> "not_literal", code]                *)
(*   [op |-> "in", items]     a class; a member is [op, lo, hi, name] with *)
(*                            op "literal", "range", "category", "negate"  *)
(*   [op |-> "any"]           .                                            *)
(*   [op |-> "at", kind]      \A \Z \b \B ^ $                              *)
(*   [op |-> "branch", branches]                                           *)
(*   [op |-> "subpattern", group, add, del, body]  a group, with its       *)
(*                            number (0: none) and its flags               *)
(*   [op |-> "atomic", body]                                               *)
(*   [op |-> "assert", dir, body], [op |-> "assert_not", dir, body]        *)
(*   [op |-> "repeat", mode, min, max, body]                               *)
(*   [op |-> "groupref", group]                                            *)
(*   [op |-> "groupref_exists", group, yes, no, else]                      *)
(* The state of the parser is [groups, open, widths, names, lb, refs,      *)
(* flags]: the next group number, the groups not closed yet, the widths of *)
(* the closed ones, the group names, lookbehindgroups (-1: None), the      *)
(* numbers conditionals refer to, and the global flags.                    *)

\* MAXREPEAT of _sre, as its digits, and the max of a quantifier without an
\* upper limit here.
MAXREPEAT == <<"4", "2", "9", "4", "9", "6", "7", "2", "9", "5">>
Infinite == -1

\* Widths are counted up to this number, and stay there.
Saturated == 1000000000

\* MAXGROUPS of _sre: a conditional may not name a group from it on.
MAXGROUPS == 1073741823

\* FLAGS and TYPE_FLAGS, by their letters
FLAGS == {"i", "L", "m", "s", "x", "a", "t", "u"}
TYPE_FLAGS == {"a", "L", "u"}

\* What re.compile raises: re.error, OverflowError; and a pattern that is
\* not modelled.
Err == [st |-> "error"]
Overflow == [st |-> "overflow"]
Unsupported == [st |-> "unsupported"]

Literal(code) == [op |-> "literal", code |-> code]
At(kind) == [op |-> "at", kind |-> kind]
Member(op, lo, hi, name) == [op |-> op, lo |-> lo, hi |-> hi, name |-> name]

\* CATEGORIES: \d \D \s \S \w \W
CATEGORIES == {"d", "D", "s", "S", "w", "W"}

\* ESCAPES: \a \f \n \r \t \v \\ (and \b in a class)
ESCAPES ==
    [e \in {"a", "f", "n", "r", "t", "v", "\\"} |->
        CASE e = "a" -> 7 [] e = "f" -> 12 [] e = "n" -> 10 [] e = "r" -> 13
          [] e = "t" -> 9 [] e = "v" -> 11 [] e = "\\" -> 92]

\* source.getwhile(n, charset): how many characters it takes at offset pos.
RECURSIVE GetWhile(_, _, _, _)
GetWhile(p, pos, n, charset) ==
    IF n > 0 /\ pos < Len(p) /\ p[pos + 1] \in charset
    THEN 1 + GetWhile(p, pos + 1, n - 1, charset)
    ELSE 0

\* p[pos] == c, with the 0-based offset pos
IsAt(p, pos, c) == pos < Len(p) /\ p[pos + 1] = c

\* \xhh, \uhhhh, \Uhhhhhhhh; pos is the offset after the letter e.
NumericEscape(p, pos, e) ==
    LET want == CASE e = "x" -> 2 [] e = "u" -> 4 [] OTHER -> 8
        k == GetWhile(p, pos, want, HexDigits)
        digs == Slice(p, pos, pos + k)
    IN IF k # want THEN Err
       ELSE IF e = "U" /\ (digs[1] # "0" \/ digs[2] # "0") THEN Err
       ELSE IF Num(digs, 16) > 1114111 THEN Err
       ELSE [st |-> "ok", pos |-> pos + k, code |-> Num(digs, 16)]

\* state.checkgroup(gid)
CheckGroup(ps, gid) == gid < ps.groups /\ gid \notin ps.open

\* state.checklookbehindgroup(gid, source) does not raise
CheckLookbehindGroup(ps, gid) ==
    ps.lb >= 0 => (CheckGroup(ps, gid) /\ gid < ps.lb)

\* _escape(source, escape, state): the escape whose character is at offset
\* pos.  [st, pos, item]
Escape(p, pos, ps) ==
    LET e == p[pos + 1]
        Ok(q, item) == [st |-> "ok", pos |-> q, item |-> item]
    IN
    IF e = "A" THEN Ok(pos + 1, At("beginning_string"))
    ELSE IF e = "Z" THEN Ok(pos + 1, At("end_string"))
    ELSE IF e = "b" THEN Ok(pos + 1, At("boundary"))
    ELSE IF e = "B" THEN Ok(pos + 1, At("non_boundary"))
    ELSE IF e \in CATEGORIES
    THEN Ok(pos + 1, [op |-> "in", items |-> <<Member("category", 0, 0, e)>>])
    ELSE IF e \in DOMAIN ESCAPES THEN Ok(pos + 1, Literal(ESCAPES[e]))
    ELSE IF e \in {"x", "u", "U"}
    THEN LET r == NumericEscape(p, pos + 1, e) IN
         IF r.st # "ok" THEN r ELSE Ok(r.pos, Literal(r.code))
    ELSE IF e = "N"
    THEN IF IsAt(p, pos + 1, "{") THEN Unsupported ELSE Err
    ELSE IF e = "0"
    THEN LET k == GetWhile(p, pos + 1, 2, OctDigits) IN
         Ok(pos + 1 + k, Literal(Num(Slice(p, pos + 1, pos + 1 + k), 8)))
    ELSE IF e \in Digits
    THEN LET two == pos + 1 < Len(p) /\ p[pos + 2] \in Digits
             three == /\ two
                      /\ e \in OctDigits /\ p[pos + 2] \in OctDigits
                      /\ pos + 2 < Len(p) /\ p[pos + 3] \in OctDigits
             q == pos + (IF two THEN 2 ELSE 1)
             group == Num(Slice(p, pos, q), 10)
         IN IF three
            THEN IF Num(Slice(p, pos, pos + 3), 8) > 255 THEN Err
                 ELSE Ok(pos + 3, Literal(Num(Slice(p, pos, pos + 3), 8)))
            ELSE IF group >= ps.groups THEN Err
            ELSE IF ~CheckGroup(ps, group) THEN Err
            ELSE IF ~CheckLookbehindGroup(ps, group) THEN Err
            ELSE Ok(q, [op |-> "groupref", group |-> group])
    ELSE IF e \in AsciiLetters THEN Err
    ELSE Ok(pos + 1, Literal(Code[e]))

\* _class_escape(source, escape): the escape whose character is at offset
\* pos.  [st, pos, member]
ClassEscape(p, pos) ==
    LET e == p[pos + 1]
        Ok(q, code) ==
            [st |-> "ok", pos |-> q, member |-> Member("literal", code, code, "")]
    IN
    IF e = "b" THEN Ok(pos + 1, 8)
    ELSE IF e \in DOMAIN ESCAPES THEN Ok(pos + 1, ESCAPES[e])
    ELSE IF e \in CATEGORIES
    THEN [st |-> "ok", pos |-> pos + 1, member |-> Member("category", 0, 0, e)]
    ELSE IF e \in {"x", "u", "U"}
    THEN LET r == NumericEscape(p, pos + 1, e) IN
         IF r.st # "ok" THEN r ELSE Ok(r.pos, r.code)
    ELSE IF e = "N"
    THEN IF IsAt(p, pos + 1, "{") THEN Unsupported ELSE Err
    ELSE IF e \in OctDigits
    THEN LET k == GetWhile(p, pos + 1, 2, OctDigits)
             c == Num(Slice(p, pos, pos + 1 + k), 8)
         IN IF c > 255 THEN Err ELSE Ok(pos + 1 + k, c)
    ELSE IF e \in Digits \cup AsciiLetters THEN Err
    ELSE Ok(pos + 1, Code[e])

\* The member of a class at offset pos: an escape or the character itself.
ClassAtom(p, pos) ==
    IF p[pos + 1] = "\\"
    THEN IF pos + 1 >= Len(p) THEN Err ELSE ClassEscape(p, pos + 1)
    ELSE [st |-> "ok", pos |-> pos + 1,
          member |-> Member("literal", Code[p[pos + 1]], Code[p[pos + 1]], "")]

\* The loop of _parse over the members of a class, from offset pos on, acc
\* the members so far: [st, pos, members], pos the offset after the "]".
RECURSIVE ParseClass(_, _, _)
ParseClass(p, pos, acc) ==
    IF pos >= Len(p) THEN Err
    ELSE IF p[pos + 1] = "]" /\ acc # <<>>
    THEN [st |-> "ok", pos |-> pos + 1, members |-> acc]
    ELSE LET Span(code1, code2) ==
                 IF code2.st # "ok" THEN code2
                 ELSE IF code1.member.op # "literal"
                         \/ code2.member.op # "literal"
                 THEN Err
                 ELSE IF code2.member.lo < code1.member.lo THEN Err
                 ELSE ParseClass(p, code2.pos,
                                 Append(acc, Member("range", code1.member.lo,
                                                    code2.member.lo, "")))
             From(code1) ==
                 IF code1.st # "ok" THEN code1
                 ELSE IF ~IsAt(p, code1.pos, "-")
                 THEN ParseClass(p, code1.pos, Append(acc, code1.member))
                 ELSE IF code1.pos + 1 >= Len(p) THEN Err
                 ELSE IF p[code1.pos + 2] = "]"
                 THEN [st |-> "ok", pos |-> code1.pos + 2,
                       members |-> acc \o <<code1.member,
                                            Member("literal", 45, 45, "")>>]
                 ELSE Span(code1, ClassAtom(p, code1.pos + 1))
         IN From(ClassAtom(p, pos))

\* The item of a class with the members set: a class of one character is
\* that character.
ClassItem(set, negate) ==
    LET s == Uniq(set) IN
    IF Len(s) = 1 /\ s[1].op = "literal"
    THEN [op |-> IF negate THEN "not_literal" ELSE "literal", code |-> s[1].lo]
    ELSE [op |-> "in",
          items |-> IF negate THEN <<Member("negate", 0, 0, "")>> \o s ELSE s]

\* digs without its leading zeros
RECURSIVE StripZeros(_)
StripZeros(digs) ==
    IF digs # <<>> /\ Head(digs) = "0" THEN StripZeros(Tail(digs)) ELSE digs

\* The pattern ends with a backslash at offset pos: the tokenizer raises
\* when it reads ahead to it.
LoneBackslash(p, pos) == pos = Len(p) - 1 /\ p[pos + 1] = "\\"

\* The "{" branch of _parse, pos the offset after the "{": a literal "{"
\* (st "literal"), or the repeat {lo,hi} with pos the offset after the "}".
\* A count of MAXREPEAT or more raises OverflowError; a smaller one of more
\* than nine digits is not modelled.
ParseBraces(p, pos) ==
    LET k == GetWhile(p, pos, Len(p), Digits)
        lo == Slice(p, pos, pos + k)
        comma == IsAt(p, pos + k, ",")
        k2 == IF comma THEN GetWhile(p, pos + k + 1, Len(p), Digits) ELSE 0
        hi == IF comma THEN Slice(p, pos + k + 1, pos + k + 1 + k2) ELSE lo
        q == IF comma THEN pos + k + 1 + k2 ELSE pos + k
        TooLarge(d) ==
            LET s == StripZeros(d) IN
            Len(s) > 10 \/ (Len(s) = 10 /\ ~StrLess(s, MAXREPEAT))
    IN IF IsAt(p, pos, "}") THEN [st |-> "literal"]
       ELSE IF ~IsAt(p, q, "}") THEN [st |-> "literal"]
       ELSE IF LoneBackslash(p, q + 1) THEN Err
       ELSE IF TooLarge(lo) \/ TooLarge(hi) THEN Overflow
       ELSE IF Len(StripZeros(lo)) > 9 \/ Len(StripZeros(hi)) > 9
       THEN Unsupported
       ELSE IF hi # <<>> /\ Num(hi, 10) < Num(lo, 10) THEN Err
       ELSE [st |-> "ok", pos |-> q + 1,
             min |-> Num(lo, 10),
             max |-> IF hi = <<>> THEN Infinite ELSE Num(hi, 10)]

\* Widths [lo, hi], hi Infinite for no limit: one after the other, either
\* of two, and a repeat of min to max times.
WidthSum(a, b) ==
    [lo |-> IF a.lo + b.lo > Saturated THEN Saturated ELSE a.lo + b.lo,
     hi |-> IF a.hi = Infinite \/ b.hi = Infinite THEN Infinite
            ELSE IF a.hi + b.hi > Saturated THEN Saturated ELSE a.hi + b.hi]
WidthEither(a, b) ==
    [lo |-> IF a.lo <= b.lo THEN a.lo ELSE b.lo,
     hi |-> IF a.hi = Infinite \/ b.hi = Infinite THEN Infinite
            ELSE IF a.hi >= b.hi THEN a.hi ELSE b.hi]
WidthTimes(w, min, max) ==
    LET Times(a, b) ==
            IF a = 0 \/ b = 0 THEN 0
            ELSE IF a > (Saturated - 1) \div b THEN Saturated
            ELSE a * b
    IN [lo |-> Times(w.lo, min),
        hi |-> IF w.hi = 0 \/ max = 0 THEN 0
               ELSE IF w.hi = Infinite \/ max = Infinite THEN Infinite
               ELSE Times(w.hi, max)]

\* SubPattern.getwidth(), widths the widths of the closed groups
RECURSIVE GetWidth(_, _)
GetWidth(seq, widths) ==
    LET RECURSIVE BranchWidth(_)
        BranchWidth(bs) ==
            IF Len(bs) = 1 THEN GetWidth(bs[1], widths)
            ELSE WidthEither(GetWidth(bs[1], widths), BranchWidth(Tail(bs)))
        ItemWidth(n) ==
            CASE n.op \in {"literal", "not_literal", "in", "any"} ->
                    [lo |-> 1, hi |-> 1]
              [] n.op = "branch" -> BranchWidth(n.branches)
              [] n.op \in {"atomic", "subpattern"} -> GetWidth(n.body, widths)
              [] n.op = "repeat" ->
                    WidthTimes(GetWidth(n.body, widths), n.min, n.max)
              [] n.op = "groupref" -> widths[n.group]
              [] n.op = "groupref_exists" ->
                    IF n.else
                    THEN WidthEither(GetWidth(n.yes, widths),
                                     GetWidth(n.no, widths))
                    ELSE [lo |-> 0, hi |-> GetWidth(n.yes, widths).hi]
              [] OTHER -> [lo |-> 0, hi |-> 0]
    IN IF seq = <<>> THEN [lo |-> 0, hi |-> 0]
       ELSE WidthSum(ItemWidth(Head(seq)), GetWidth(Tail(seq), widths))

\* _parse_sub, once the branches items are parsed: the items all branches
\* begin with are moved in front (acc), and branches of one character or
\* class each become one class.  Items that hold a SubPattern are never
\* equal.
RECURSIVE FinishBranches(_, _)
FinishBranches(items, acc) ==
    LET n == Len(items)
        common ==
            /\ \A k \in 1..n : items[k] # <<>>
            /\ items[1][1].op \in {"literal", "not_literal", "in", "any", "at",
                                   "groupref"}
            /\ \A k \in 1..n :
                  items[k][1].op = items[1][1].op /\ items[k][1] = items[1][1]
        single ==
            \A k \in 1..n :
                /\ Len(items[k]) = 1
                /\ \/ items[k][1].op = "literal"
                   \/ /\ items[k][1].op = "in"
                      /\ items[k][1].items[1].op # "negate"
        RECURSIVE Members(_)
        Members(k) ==
            IF k > n THEN <<>>
            ELSE (IF items[k][1].op = "literal"
                  THEN <<Member("literal", items[k][1].code, items[k][1].code, "")>>
                  ELSE items[k][1].items) \o Members(k + 1)
    IN IF common
       THEN FinishBranches([k \in 1..n |-> Tail(items[k])],
                           Append(acc, items[1][1]))
       ELSE IF single
       THEN Append(acc, [op |-> "in", items |-> Uniq(Members(1))])
       ELSE Append(acc, [op |-> "branch", branches |-> items])

\* A group that neither captures nor sets flags.
IsPlainGroup(n) ==
    n.op = "subpattern" /\ n.group = 0 /\ n.add = {} /\ n.del = {}

\* The end of _parse: the items with the plain groups unpacked.
RECURSIVE Unpack(_)
Unpack(seq) ==
    IF seq = <<>> THEN <<>>
    ELSE (IF IsPlainGroup(Head(seq)) THEN Head(seq).body ELSE <<Head(seq)>>)
         \o Unpack(Tail(seq))

\* Verbose mode: the offset after a "#" comment that begins before pos, or
\* -1 when the pattern ends in a backslash.
RECURSIVE SkipLine(_, _)
SkipLine(p, pos) ==
    IF pos >= Len(p) THEN pos
    ELSE IF p[pos + 1] = "\n" THEN pos + 1
    ELSE IF p[pos + 1] = "\\"
    THEN IF pos + 1 >= Len(p) THEN -1 ELSE SkipLine(p, pos + 2)
    ELSE SkipLine(p, pos + 1)

\* The offset after the ")" that ends a comment (?#...), or -1.
RECURSIVE SkipComment(_, _)
SkipComment(p, pos) ==
    IF pos >= Len(p) THEN -1
    ELSE IF p[pos + 1] = ")" THEN pos + 1
    ELSE IF p[pos + 1] = "\\"
    THEN IF pos + 1 >= Len(p) THEN -1 ELSE SkipComment(p, pos + 2)
    ELSE SkipComment(p, pos + 1)

\* source.getuntil(terminator, name) from offset pos: [st, pos, name], pos
\* the offset after the terminator.  A backslash and the character after it
\* are one token.
GetUntil(p, pos, terminator) ==
    LET RECURSIVE Go(_)
        Go(q) ==
            IF q >= Len(p) THEN Err
            ELSE IF p[q + 1] = terminator
            THEN IF q = pos THEN Err
                 ELSE [st |-> "ok", pos |-> q + 1, name |-> Slice(p, pos, q)]
            ELSE IF p[q + 1] = "\\"
            THEN IF q + 1 >= Len(p) THEN Err ELSE Go(q + 2)
            ELSE Go(q + 1)
    IN Go(pos)

\* name.isidentifier()
IsIdentifier(name) ==
    /\ name # <<>>
    /\ name[1] \in IdentifierStart
    /\ \A k \in 1..Len(name) : name[k] \in IdentifierContinue

\* int(name) of a conditional's group: its value (MAXGROUPS for that and
\* every larger one), or -1 when int raises or the value is negative.
IntLiteral(name) ==
    LET RECURSIVE Left(_)
        Left(s) == IF s # <<>> /\ Head(s) \in IntWhitespace
                   THEN Left(Tail(s)) ELSE s
        RECURSIVE Right(_)
        Right(s) == IF s # <<>> /\ s[Len(s)] \in IntWhitespace
                    THEN Right(SubSeq(s, 1, Len(s) - 1)) ELSE s
        s0 == Right(Left(name))
        signed == s0 # <<>> /\ s0[1] \in {"+", "-"}
        s == IF signed THEN Tail(s0) ELSE s0
        wellformed ==
            /\ s # <<>> /\ s[1] \in Digits /\ s[Len(s)] \in Digits
            /\ \A k \in 1..Len(s) :
                  s[k] \in Digits \/ (s[k] = "_" /\ s[k + 1] # "_")
        digs == StripZeros(SelectSeq(s, LAMBDA c : c # "_"))
        maxgroups == <<"1", "0", "7", "3", "7", "4", "1", "8", "2", "3">>
    IN IF ~wellformed THEN -1
       ELSE IF signed /\ s0[1] = "-" THEN (IF digs = <<>> THEN 0 ELSE -1)
       ELSE IF Len(digs) > 10 \/ (Len(digs) = 10 /\ ~StrLess(digs, maxgroups))
       THEN MAXGROUPS
       ELSE Num(digs, 10)

\* _parse_flags(source, state, char): the flags of "(?" from offset pos on,
\* up to the ")" (st "global") or the ":" (st "scoped").  [st, pos, add, del]
ParseFlags(p, pos) ==
    LET RECURSIVE Add(_, _)
        Add(q, add) ==
            LET add2 == add \cup {p[q + 1]} IN
            IF p[q + 1] = "L" THEN Err
            ELSE IF p[q + 1] \in {"a", "u"} /\ add2 \cap TYPE_FLAGS # {p[q + 1]}
            THEN Err
            ELSE IF q + 1 >= Len(p) THEN Err
            ELSE IF p[q + 2] \in {")", "-", ":"}
            THEN [st |-> "ok", pos |-> q + 1, flags |-> add2]
            ELSE IF p[q + 2] \notin FLAGS THEN Err
            ELSE Add(q + 1, add2)
        RECURSIVE Del(_, _)
        Del(q, del) ==
            IF p[q + 1] \in TYPE_FLAGS THEN Err
            ELSE IF q + 1 >= Len(p) THEN Err
            ELSE IF p[q + 2] = ":"
            THEN [st |-> "ok", pos |-> q + 1, flags |-> del \cup {p[q + 1]}]
            ELSE IF p[q + 2] \notin FLAGS THEN Err
            ELSE Del(q + 1, del \cup {p[q + 1]})
        a == IF p[pos + 1] = "-" THEN [st |-> "ok", pos |-> pos, flags |-> {}]
             ELSE Add(pos, {})
        d == IF p[a.pos + 1] # "-" THEN [st |-> "ok", pos |-> a.pos, flags |-> {}]
             ELSE IF a.pos + 1 >= Len(p) THEN Err
             ELSE IF p[a.pos + 2] \notin FLAGS THEN Err
             ELSE Del(a.pos + 1, {})
    IN IF a.st # "ok" THEN a
       ELSE IF p[a.pos + 1] = ")"
       THEN [st |-> "global", pos |-> a.pos + 1, add |-> a.flags, del |-> {}]
       ELSE IF "t" \in a.flags THEN Err
       ELSE IF d.st # "ok" THEN d
       ELSE IF "t" \in d.flags THEN Err
       ELSE IF a.flags \cap d.flags # {} THEN Err
       ELSE [st |-> "scoped", pos |-> d.pos + 1, add |-> a.flags,
             del |-> d.flags]

RECURSIVE ParseBranches(_, _, _, _, _, _)
RECURSIVE ParseItems(_, _, _, _, _, _)
RECURSIVE ParseGroup(_, _, _, _, _, _)
RECURSIVE ParseCond(_, _, _, _, _, _)
RECURSIVE OpenGroup(_, _, _, _, _, _)

\* _parse_sub(source, state, verbose, nested): an alternation from offset
\* pos on; top is "not nested".  [st, pos, seq, ps]
ParseSub(p, pos, ps, verbose, top) ==
    ParseBranches(p, pos, ps, verbose, top, <<>>)

\* The loop of _parse_sub, acc the branches so far.
ParseBranches(p, pos, ps, verbose, top, acc) ==
    LET After(r) ==
            IF r.st # "ok" THEN r
            ELSE IF IsAt(p, r.pos, "|")
            THEN ParseBranches(p, r.pos + 1, r.ps,
                               IF top THEN "x" \in r.ps.flags ELSE verbose,
                               top, Append(acc, r.seq))
            ELSE IF acc = <<>> THEN r
            ELSE [st |-> "ok", pos |-> r.pos, ps |-> r.ps,
                  seq |-> FinishBranches(Append(acc, r.seq), <<>>)]
    IN After(ParseItems(p, pos, ps, verbose, top /\ acc = <<>>, <<>>))

\* The loop of _parse: the items from offset pos up to "|", ")" or the end,
\* acc the items so far.
ParseItems(p, pos, ps, verbose, first, acc) ==
    IF pos >= Len(p) \/ p[pos + 1] \in {"|", ")"}
    THEN [st |-> "ok", pos |-> pos, ps |-> ps, seq |-> Unpack(acc)]
    ELSE LET this == p[pos + 1] IN
    IF verbose /\ this \in AsciiWhitespace
    THEN ParseItems(p, pos + 1, ps, verbose, first, acc)
    ELSE IF verbose /\ this = "#"
    THEN LET Skipped(q) ==
                 IF q < 0 THEN Err
                 ELSE ParseItems(p, q, ps, verbose, first, acc)
         IN Skipped(SkipLine(p, pos + 1))
    ELSE IF this = "\\"
    THEN IF pos + 1 >= Len(p) THEN Err
         ELSE LET Escaped(r) ==
                      IF r.st # "ok" THEN r
                      ELSE ParseItems(p, r.pos, ps, verbose, first,
                                      Append(acc, r.item))
              IN Escaped(Escape(p, pos + 1, ps))
    ELSE IF this = "["
    THEN LET negate == IsAt(p, pos + 1, "^")
             Class(r) ==
                 IF r.st # "ok" THEN r
                 ELSE ParseItems(p, r.pos, ps, verbose, first,
                                 Append(acc, ClassItem(r.members, negate)))
         IN Class(ParseClass(p, IF negate THEN pos + 2 ELSE pos + 1, <<>>))
    ELSE IF this \in {"*", "+", "?", "{"}
    THEN LET Repeated(b) ==
                 IF b.st = "literal"
                 THEN ParseItems(p, pos + 1, ps, verbose, first,
                                 Append(acc, Literal(123)))
                 ELSE IF b.st # "ok" THEN b
                 ELSE IF acc = <<>> THEN Err
                 ELSE IF acc[Len(acc)].op \in {"at", "repeat"} THEN Err
                 ELSE LET mode == IF IsAt(p, b.pos, "?") THEN "min"
                                  ELSE IF IsAt(p, b.pos, "+") THEN "possessive"
                                  ELSE "max"
                          q == IF mode = "max" THEN b.pos ELSE b.pos + 1
                          item == acc[Len(acc)]
                      IN ParseItems(p, q, ps, verbose, first,
                                    Append(SubSeq(acc, 1, Len(acc) - 1),
                                           [op |-> "repeat", mode |-> mode,
                                            min |-> b.min, max |-> b.max,
                                            body |-> IF IsPlainGroup(item)
                                                     THEN item.body
                                                     ELSE <<item>>]))
         IN Repeated(IF this = "{" THEN ParseBraces(p, pos + 1)
                     ELSE [st |-> "ok", pos |-> pos + 1,
                           min |-> IF this = "+" THEN 1 ELSE 0,
                           max |-> IF this = "?" THEN 1 ELSE Infinite])
    ELSE IF this = "."
    THEN ParseItems(p, pos + 1, ps, verbose, first, Append(acc, [op |-> "any"]))
    ELSE IF this = "^"
    THEN ParseItems(p, pos + 1, ps, verbose, first, Append(acc, At("beginning")))
    ELSE IF this = "$"
    THEN ParseItems(p, pos + 1, ps, verbose, first, Append(acc, At("end")))
    ELSE IF this = "("
    THEN ParseGroup(p, pos + 1, ps, verbose, first, acc)
    ELSE ParseItems(p, pos + 1, ps, verbose, first,
                    Append(acc, Literal(Code[this])))

\* The conditional (?(group)yes|no), pos the offset after "(?(".
ParseCond(p, pos, ps, verbose, first, acc) ==
    LET Cond(r, named, gid) ==
            LET ps2 == IF named THEN ps ELSE [ps EXCEPT !.refs = @ \cup {gid}]
                No(yes, else, no) ==
                    IF no.st # "ok" THEN no
                    ELSE IF ~IsAt(p, no.pos, ")") THEN Err
                    ELSE ParseItems(p, no.pos + 1, no.ps, verbose, first,
                                    Append(acc, [op |-> "groupref_exists",
                                                 group |-> gid,
                                                 yes |-> yes.seq,
                                                 no |-> no.seq,
                                                 else |-> else]))
                Yes(yes) ==
                    IF yes.st # "ok" THEN yes
                    ELSE IF IsAt(p, yes.pos, "|")
                    THEN No(yes, TRUE,
                            ParseItems(p, yes.pos + 1, yes.ps, verbose, FALSE,
                                       <<>>))
                    ELSE No(yes, FALSE,
                            [st |-> "ok", pos |-> yes.pos, ps |-> yes.ps,
                             seq |-> <<>>])
            IN IF ~named /\ (gid <= 0 \/ gid >= MAXGROUPS) THEN Err
               ELSE IF ~CheckLookbehindGroup(ps2, gid) THEN Err
               ELSE Yes(ParseItems(p, r.pos, ps2, verbose, FALSE, <<>>))
        Named(r) ==
            IF r.st # "ok" THEN r
            ELSE IF IsIdentifier(r.name)
            THEN IF r.name \notin DOMAIN ps.names THEN Err
                 ELSE Cond(r, TRUE, ps.names[r.name])
            ELSE Cond(r, FALSE, IntLiteral(r.name))
    IN Named(GetUntil(p, pos, ")"))

\* The "(" branch of _parse, pos the offset after the "(": what kind of
\* group it is.
ParseGroup(p, pos, ps, verbose, first, acc) ==
    LET char == p[pos + 2]
        Group(kind, body, capture, name, dir) ==
            [kind |-> kind, body |-> body, capture |-> capture, name |-> name,
             dir |-> dir, add |-> {}, del |-> {}]
        named == GetUntil(p, pos + 3, ">")
        ref == GetUntil(p, pos + 3, ")")
        flags == ParseFlags(p, pos + 1)
    IN
    IF ~IsAt(p, pos, "?")
    THEN OpenGroup(p, Group("subpattern", pos, TRUE, <<>>, 1),
                   ps, verbose, first, acc)
    ELSE IF pos + 1 >= Len(p) THEN Err
    ELSE IF char = "P"
    THEN IF IsAt(p, pos + 2, "<")
         THEN IF named.st # "ok" THEN named
              ELSE IF ~IsIdentifier(named.name) THEN Err
              ELSE OpenGroup(p, Group("subpattern", named.pos, TRUE,
                                      named.name, 1),
                             ps, verbose, first, acc)
         ELSE IF IsAt(p, pos + 2, "=")
         THEN IF ref.st # "ok" THEN ref
              ELSE IF ~IsIdentifier(ref.name) THEN Err
              ELSE IF ref.name \notin DOMAIN ps.names THEN Err
              ELSE IF ~CheckGroup(ps, ps.names[ref.name]) THEN Err
              ELSE IF ~CheckLookbehindGroup(ps, ps.names[ref.name]) THEN Err
              ELSE ParseItems(p, ref.pos, ps, verbose, first,
                              Append(acc, [op |-> "groupref",
                                           group |-> ps.names[ref.name]]))
         ELSE Err
    ELSE IF char = ":"
    THEN OpenGroup(p, Group("subpattern", pos + 2, FALSE, <<>>, 1),
                   ps, verbose, first, acc)
    ELSE IF char = "#"
    THEN IF SkipComment(p, pos + 2) < 0 THEN Err
         ELSE ParseItems(p, SkipComment(p, pos + 2), ps, verbose, first, acc)
    ELSE IF char \in {"=", "!"}
    THEN OpenGroup(p, Group(IF char = "=" THEN "assert" ELSE "assert_not",
                            pos + 2, FALSE, <<>>, 1),
                   ps, verbose, first, acc)
    ELSE IF char = "<"
    THEN IF pos + 2 >= Len(p) THEN Err
         ELSE IF p[pos + 3] \notin {"=", "!"} THEN Err
         ELSE OpenGroup(p, Group(IF p[pos + 3] = "=" THEN "assert"
                                 ELSE "assert_not",
                                 pos + 3, FALSE, <<>>, -1),
                        ps, verbose, first, acc)
    ELSE IF char = "("
    THEN ParseCond(p, pos + 2, ps, verbose, first, acc)
    ELSE IF char = ">"
    THEN OpenGroup(p, Group("atomic", pos + 2, FALSE, <<>>, 1),
                   ps, verbose, first, acc)
    ELSE IF char \in FLAGS \cup {"-"}
    THEN IF flags.st = "error" THEN flags
         ELSE IF flags.st = "global"
         THEN IF ~first \/ acc # <<>> THEN Err
              ELSE ParseItems(p, flags.pos,
                              [ps EXCEPT !.flags = @ \cup flags.add],
                              "x" \in ps.flags \cup flags.add, first, acc)
         ELSE OpenGroup(p, [Group("subpattern", flags.pos, FALSE, <<>>, 1)
                               EXCEPT !.add = flags.add, !.del = flags.del],
                        ps, verbose, first, acc)
    ELSE Err

\* The rest of the "(" branch: the group g is opened, its body parsed from
\* offset g.body on and, at the ")", the group closed.
OpenGroup(p, g, ps, verbose, first, acc) ==
    LET gid == IF g.capture THEN ps.groups ELSE 0
        behind == g.dir < 0 /\ ps.lb < 0
        ps1 == IF g.capture
               THEN [ps EXCEPT
                        !.groups = gid + 1,
                        !.open = @ \cup {gid},
                        !.names = IF g.name = <<>> THEN @
                                  ELSE [x \in (DOMAIN @) \cup {g.name} |->
                                           IF x = g.name THEN gid ELSE @[x]]]
               ELSE IF behind THEN [ps EXCEPT !.lb = ps.groups]
               ELSE ps
        sub_verbose == (verbose \/ "x" \in g.add) /\ "x" \notin g.del
        Item(seq) ==
            CASE g.kind = "subpattern" ->
                    [op |-> "subpattern", group |-> gid, add |-> g.add,
                     del |-> g.del, body |-> seq]
              [] g.kind = "atomic" -> [op |-> "atomic", body |-> seq]
              [] OTHER -> [op |-> g.kind, dir |-> g.dir, body |-> seq]
        Closed(ps2, seq) ==
            IF g.capture
            THEN [ps2 EXCEPT
                     !.open = @ \ {gid},
                     !.widths = [x \in (DOMAIN @) \cup {gid} |->
                                    IF x = gid THEN GetWidth(seq, ps2.widths)
                                    ELSE @[x]]]
            ELSE ps2
        Close(r) ==
            IF r.st # "ok" THEN r
            ELSE IF ~IsAt(p, r.pos, ")") THEN Err
            ELSE ParseItems(p, r.pos + 1,
                            Closed(IF behind THEN [r.ps EXCEPT !.lb = -1]
                                   ELSE r.ps,
                                   r.seq),
                            verbose, first, Append(acc, Item(r.seq)))
    IN IF g.name # <<>> /\ g.name \in DOMAIN ps.names THEN Err
       ELSE Close(ParseSub(p, g.body, ps1,
                           IF g.kind \in {"assert", "assert_not"} THEN verbose
                           ELSE sub_verbose,
                           FALSE))

-----------------------------------------------------------------------------
(* re.compile(rule_text), second half: the compiler (re._compiler), which  *)
(* settles what the flags in force make of each item.  A compiled pattern  *)
(* is a tree of                                                            *)
(*   [op |-> "in", cls, neg]     one character of a class: cls is a set of *)
(*                               [set, neg], neg negates the class         *)
(*   [op |-> "at", kind]         an assertion of the position              *)
(*   [op |-> "seq", items]       the items one after the other             *)
(*   [op |-> "alt", branches]    a|b|c                                     *)
(*   [op |-> "group", body], [op |-> "capture", body]                      *)
(*   [op |-> "atomic", body]     (?>...)                                   *)
(*   [op |-> "ahead", body], [op |-> "notahead", body]    (?=...), (?!...) *)
(*   [op |-> "behind", body, width], [op |-> "notbehind", body, width]     *)
(*   [op |-> "rep", body, min, max, mode]   a quantifier: mode "max",      *)
(*                               "min" or "possessive"                     *)
(*   [op |-> "ref", group], [op |-> "cond", group, yes, no]                *)
(* The matching of a back-reference, of a conditional and of a possessive  *)
(* quantifier over a capturing group is not modelled: such a pattern is    *)
(* "unsupported", as are \N{...} and a repeat count of more than nine      *)
(* digits.                                                                 *)

\* _combine_flags(flags, add_flags, del_flags)
CombineFlags(flags, add, del) ==
    ((IF add \cap TYPE_FLAGS # {} THEN flags \ TYPE_FLAGS ELSE flags)
     \cup add) \ del

\* The code points IGNORECASE takes for the character c: its own, that of
\* its other case and, without the ASCII flag, those of the characters
\* outside Latin-1 with the same lower case.
CaseCodes(c, ascii) ==
    LET k == Code[c]
        swapped ==
            IF (65 <= k /\ k <= 90) \/ (192 <= k /\ k <= 214)
               \/ (216 <= k /\ k <= 222)
            THEN k + 32
            ELSE IF (97 <= k /\ k <= 122) \/ (224 <= k /\ k <= 246)
                    \/ (248 <= k /\ k <= 254)
            THEN k - 32
            ELSE k
        extra ==
            CASE k \in {73, 105} -> {304, 305}
              [] k \in {75, 107} -> {8490}
              [] k \in {83, 115} -> {383}
              [] k = 181 -> {924, 956}
              [] k \in {197, 229} -> {8491}
              [] k = 223 -> {7838}
              [] k = 255 -> {376}
              [] OTHER -> {}
    IN IF ascii THEN (IF c \in AsciiLetters THEN {k, swapped} ELSE {k})
       ELSE {k, swapped} \cup extra

\* The characters a literal or a range of code points matches.
RangeSet(lo, hi, ignore, ascii) ==
    IF ignore
    THEN {c \in Characters : \E k \in CaseCodes(c, ascii) : lo <= k /\ k <= hi}
    ELSE {c \in Characters : lo <= Code[c] /\ Code[c] <= hi}

\* A member of a class as [set, neg]: the characters, and whether the
\* member is those outside the set.
MemberSet(m, ignore, ascii) ==
    IF m.op = "category"
    THEN [set |-> CASE m.name \in {"d", "D"} -> Digits
                    [] m.name \in {"s", "S"} ->
                          IF ascii THEN AsciiWhitespace ELSE Whitespace
                    [] OTHER -> IF ascii THEN AsciiWordChars ELSE WordChars,
          neg |-> m.name \in {"D", "S", "W"}]
    ELSE [set |-> RangeSet(m.lo, m.hi, ignore, ascii), neg |-> FALSE]

\* _compile of a class
ClassNode(members, ignore, ascii) ==
    LET neg == members # <<>> /\ members[1].op = "negate"
        ms == IF neg THEN Tail(members) ELSE members
    IN [op |-> "in",
        cls |-> {MemberSet(ms[k], ignore, ascii) : k \in 1..Len(ms)},
        neg |-> neg]

\* _compile(code, pattern, flags): [st, node]
RECURSIVE CompileSeq(_, _, _)
CompileSeq(seq, flags, widths) ==
    LET ignore == "i" \in flags
        ascii == "a" \in flags
        Ok(node) == [st |-> "ok", node |-> node]
        RECURSIVE All(_, _)
        Item(n) ==
            CASE n.op = "literal" ->
                    Ok([op |-> "in", neg |-> FALSE,
                        cls |-> {[set |-> RangeSet(n.code, n.code, ignore, ascii),
                                  neg |-> FALSE]}])
              [] n.op = "not_literal" ->
                    Ok([op |-> "in", neg |-> TRUE,
                        cls |-> {[set |-> RangeSet(n.code, n.code, ignore, ascii),
                                  neg |-> FALSE]}])
              [] n.op = "in" -> Ok(ClassNode(n.items, ignore, ascii))
              [] n.op = "any" ->
                    Ok([op |-> "in", neg |-> FALSE,
                        cls |-> {[set |-> IF "s" \in flags THEN {} ELSE {"\n"},
                                  neg |-> TRUE]}])
              [] n.op = "at" ->
                    Ok(At(CASE n.kind = "beginning" /\ "m" \in flags ->
                                  "beginning_line"
                            [] n.kind = "end" /\ "m" \in flags -> "end_line"
                            [] n.kind = "boundary" /\ ~ascii -> "uni_boundary"
                            [] n.kind = "non_boundary" /\ ~ascii ->
                                  "uni_non_boundary"
                            [] OTHER -> n.kind))
              [] n.op = "branch" ->
                    LET r == All([k \in 1..Len(n.branches) |->
                                     CompileSeq(n.branches[k], flags, widths)], 1)
                    IN IF r.st # "ok" THEN r
                       ELSE Ok([op |-> "alt", branches |-> r.nodes])
              [] n.op = "subpattern" ->
                    LET r == CompileSeq(n.body,
                                        CombineFlags(flags, n.add, n.del), widths)
                    IN IF r.st # "ok" THEN r
                       ELSE Ok([op |-> IF n.group > 0 THEN "capture" ELSE "group",
                                body |-> r.node])
              [] n.op = "atomic" ->
                    LET r == CompileSeq(n.body, flags, widths) IN
                    IF r.st # "ok" THEN r
                    ELSE Ok([op |-> "atomic", body |-> r.node])
              [] n.op \in {"assert", "assert_not"} ->
                    LET r == CompileSeq(n.body, flags, widths)
                        w == GetWidth(n.body, widths)
                    IN IF n.dir > 0
                       THEN IF r.st # "ok" THEN r
                            ELSE Ok([op |-> IF n.op = "assert" THEN "ahead"
                                            ELSE "notahead",
                                     body |-> r.node])
                       ELSE IF w.hi = Infinite THEN Err
                       ELSE IF w.lo = Saturated THEN Unsupported
                       ELSE IF w.lo # w.hi THEN Err
                       ELSE IF r.st # "ok" THEN r
                       ELSE Ok([op |-> IF n.op = "assert" THEN "behind"
                                       ELSE "notbehind",
                                body |-> r.node, width |-> w.lo])
              [] n.op = "repeat" ->
                    LET r == CompileSeq(n.body, flags, widths) IN
                    IF "t" \in flags THEN Err
                    ELSE IF r.st # "ok" THEN r
                    ELSE Ok([op |-> "rep", body |-> r.node, min |-> n.min,
                             max |-> n.max, mode |-> n.mode])
              [] n.op = "groupref" -> Ok([op |-> "ref", group |-> n.group])
              [] n.op = "groupref_exists" ->
                    LET y == CompileSeq(n.yes, flags, widths)
                        z == CompileSeq(n.no, flags, widths)
                    IN IF y.st # "ok" THEN y
                       ELSE IF z.st # "ok" THEN z
                       ELSE Ok([op |-> "cond", group |-> n.group,
                                yes |-> y.node, no |-> z.node])
        \* the results rs from the k-th on: the first that is not "ok", or
        \* their nodes
        All(rs, k) ==
            IF k > Len(rs) THEN [st |-> "ok", nodes |-> <<>>]
            ELSE IF rs[k].st # "ok" THEN rs[k]
            ELSE LET rest == All(rs, k + 1) IN
                 IF rest.st # "ok" THEN rest
                 ELSE [st |-> "ok", nodes |-> <<rs[k].node>> \o rest.nodes]
        r == All([k \in 1..Len(seq) |-> Item(seq[k])], 1)
    IN IF r.st # "ok" THEN r ELSE Ok([op |-> "seq", items |-> r.nodes])

\* _get_charset_prefix(pattern, flags), for a pattern that begins with a
\* class: the members of the class and the flags in force there, in a
\* sequence, or <<>>.
RECURSIVE GetCharsetPrefix(_, _)
GetCharsetPrefix(seq, flags) ==
    IF seq = <<>> THEN <<>>
    ELSE IF seq[1].op = "subpattern"
    THEN GetCharsetPrefix(seq[1].body, CombineFlags(flags, seq[1].add, seq[1].del))
    ELSE IF seq[1].op = "in"
    THEN <<[members |-> seq[1].items, flags |-> flags]>>
    ELSE <<>>

\* _compile_info(code, pattern, flags): the class that a search tests a
\* character with before it tries a match there, in a sequence, or <<>>.
\* The info block holds the class the pattern begins with, compiled under
\* the flags of the whole pattern; it is here when those differ, in ASCII
\* or Unicode, from the flags in force at the class.  [st, pre]
CompileInfo(seq, flags, widths) ==
    LET cp == GetCharsetPrefix(seq, flags)
        members == cp[1].members
        ascii == "a" \in cp[1].flags
        \* iscased of a member: "yes", "no" or, for a character outside
        \* Latin-1 other than U+0100, "unknown"
        Cased(m) ==
            IF m.op \notin {"literal", "range"} THEN "no"
            ELSE IF m.op = "range" /\ m.hi > 65535 THEN "yes"
            ELSE IF \E k \in m.lo..(IF m.hi > 255 THEN 255 ELSE m.hi) :
                        IF ascii THEN (65 <= k /\ k <= 90) \/ (97 <= k /\ k <= 122)
                        ELSE k \in {181, 255}
                             \/ (65 <= k /\ k <= 90) \/ (97 <= k /\ k <= 122)
                             \/ (192 <= k /\ k <= 254 /\ k \notin {215, 223, 247})
            THEN "yes"
            ELSE IF ascii \/ m.hi <= 255 THEN "no"
            ELSE IF m.lo <= 256 THEN "yes"
            ELSE "unknown"
        cased == {Cased(members[k]) : k \in 1..Len(members)}
    IN IF GetWidth(seq, widths).lo = 0 THEN [st |-> "ok", pre |-> <<>>]
       ELSE IF cp = <<>> THEN [st |-> "ok", pre |-> <<>>]
       ELSE IF ascii = ("a" \in flags) THEN [st |-> "ok", pre |-> <<>>]
       ELSE IF "i" \in cp[1].flags /\ "yes" \in cased
       THEN [st |-> "ok", pre |-> <<>>]
       ELSE IF "i" \in cp[1].flags /\ "unknown" \in cased THEN Unsupported
       ELSE [st |-> "ok",
             pre |-> <<ClassNode(members, FALSE, "a" \in flags)>>]

\* The node n has a capturing group.
RECURSIVE Captures(_)
Captures(n) ==
    CASE n.op = "capture" -> TRUE
      [] n.op \in {"in", "at", "ref"} -> FALSE
      [] n.op = "seq" -> \E k \in 1..Len(n.items) : Captures(n.items[k])
      [] n.op = "alt" -> \E k \in 1..Len(n.branches) : Captures(n.branches[k])
      [] n.op = "cond" -> Captures(n.yes) \/ Captures(n.no)
      [] OTHER -> Captures(n.body)

\* The matching of the node n is modelled.
RECURSIVE Modelled(_)
Modelled(n) ==
    CASE n.op \in {"ref", "cond"} -> FALSE
      [] n.op \in {"in", "at"} -> TRUE
      [] n.op = "seq" -> \A k \in 1..Len(n.items) : Modelled(n.items[k])
      [] n.op = "alt" -> \A k \in 1..Len(n.branches) : Modelled(n.branches[k])
      [] n.op = "rep" ->
            ~(n.mode = "possessive" /\ Captures(n.body)) /\ Modelled(n.body)
      [] OTHER -> Modelled(n.body)

\* re.compile(text): [st, node, pre], st one of "ok", "error" (re.error),
\* "overflow" (OverflowError), "value" (the ValueError of fix_flags for the
\* flags a and u together) and "unsupported".
Parse(text) ==
    LET Built(c, info) ==
            IF c.st # "ok" THEN c
            ELSE IF info.st # "ok" THEN info
            ELSE IF ~Modelled(c.node) THEN Unsupported
            ELSE [st |-> "ok", node |-> c.node, pre |-> info.pre]
        Parsed(r) ==
            IF r.st # "ok" THEN r
            ELSE IF {"a", "u"} \subseteq r.ps.flags THEN [st |-> "value"]
            ELSE IF r.pos < Len(text) THEN Err
            ELSE IF \E g \in r.ps.refs : g >= r.ps.groups THEN Err
            ELSE Built(CompileSeq(r.seq, r.ps.flags, r.ps.widths),
                       CompileInfo(r.seq, r.ps.flags, r.ps.widths))
    IN IF \E i \in 1..Len(text) : text[i] \notin Characters THEN Unsupported
       ELSE IF LoneBackslash(text, 0) THEN Err
       ELSE Parsed(ParseSub(text, 0,
                            [groups |-> 1, open |-> {}, widths |-> <<>>,
                             names |-> <<>>, lb |-> -1, refs |-> {},
                             flags |-> {}],
                            FALSE, TRUE))

\* re.compile(rule_text) raises re.error
CompileFails(text) == Parse(text).st = "error"

\* re.compile(rule_text), for rule_text that compiles: the pattern, and the
\* class of its info block.
Compile(text) ==
    LET Pattern(r) == [node |-> r.node, pre |-> r.pre] IN Pattern(Parse(text))

\* SanitizerRule(description=rule_text, pattern=re.compile(rule_text))
SanitizerRule(text) == [description |-> text, pattern |-> Compile(text)]

-----------------------------------------------------------------------------
(* Matching: the backtracking of the re engine.  Ends(n, v, i) is the      *)
(* offsets at which a match of n that starts at offset i of v can end, in  *)
(* the order the engine tries them.                                        *)

\* F(s[1]) \o F(s[2]) \o ...
FlatMap(F(_), s) ==
    LET RECURSIVE Go(_)
        Go(j) == IF j > Len(s) THEN <<>> ELSE F(s[j]) \o Go(j + 1)
    IN Go(1)

\* \b at offset i of v: exactly one side is a character of word.
IsBoundary(v, i, word) ==
    (i > 0 /\ v[i] \in word) # (i < Len(v) /\ v[i + 1] \in word)

\* The assertion kind holds at offset i of v.
AtHolds(kind, v, i) ==
    CASE kind \in {"beginning", "beginning_string"} -> i = 0
      [] kind = "beginning_line" -> i = 0 \/ v[i] = "\n"
      [] kind = "end_string" -> i = Len(v)
      [] kind = "end" -> i = Len(v) \/ (i = Len(v) - 1 /\ v[i + 1] = "\n")
      [] kind = "end_line" -> i = Len(v) \/ v[i + 1] = "\n"
      [] kind = "boundary" -> IsBoundary(v, i, AsciiWordChars)
      [] kind = "non_boundary" ->
            Len(v) > 0 /\ ~IsBoundary(v, i, AsciiWordChars)
      [] kind = "uni_boundary" -> IsBoundary(v, i, WordChars)
      [] kind = "uni_non_boundary" ->
            Len(v) > 0 /\ ~IsBoundary(v, i, WordChars)

\* The character c is in the class of the node n.
InClass(c, n) == (\E it \in n.cls : (c \in it.set) # it.neg) # n.neg

RECURSIVE Ends(_, _, _)
RECURSIVE EndsSeq(_, _, _, _)
RECURSIVE RepGreedy(_, _, _, _, _, _, _)
RECURSIVE RepLazy(_, _, _, _, _, _, _)
RECURSIVE RepPossessive(_, _, _, _, _, _, _)

Ends(n, v, i) ==
    CASE n.op = "in" ->
            IF i < Len(v) /\ InClass(v[i + 1], n) THEN <<i + 1>> ELSE <<>>
      [] n.op = "at" -> IF AtHolds(n.kind, v, i) THEN <<i>> ELSE <<>>
      [] n.op = "seq" -> EndsSeq(n.items, 1, v, i)
      [] n.op = "alt" -> Uniq(FlatMap(LAMBDA b : Ends(b, v, i), n.branches))
      [] n.op \in {"group", "capture"} -> Ends(n.body, v, i)
      [] n.op = "atomic" ->
            LET First(es) == IF es = <<>> THEN <<>> ELSE <<es[1]>>
            IN First(Ends(n.body, v, i))
      [] n.op = "ahead" -> IF Ends(n.body, v, i) # <<>> THEN <<i>> ELSE <<>>
      [] n.op = "notahead" -> IF Ends(n.body, v, i) # <<>> THEN <<>> ELSE <<i>>
      [] n.op = "behind" ->
            IF i >= n.width /\ Ends(n.body, v, i - n.width) # <<>>
            THEN <<i>> ELSE <<>>
      [] n.op = "notbehind" ->
            IF i >= n.width /\ Ends(n.body, v, i - n.width) # <<>>
            THEN <<>> ELSE <<i>>
      [] n.op = "rep" ->
            CASE n.mode = "max" ->
                    RepGreedy(n.body, n.min, n.max, 0, v, i, -1)
              [] n.mode = "min" ->
                    RepLazy(n.body, n.min, n.max, 0, v, i, -1)
              [] n.mode = "possessive" ->
                    RepPossessive(n.body, n.min, n.max, 0, v, i, -1)

\* items[k], items[k+1], ... one after the other.
EndsSeq(items, k, v, i) ==
    IF k > Len(items) THEN <<i>>
    ELSE Uniq(FlatMap(LAMBDA e : EndsSeq(items, k + 1, v, e),
                      Ends(items[k], v, i)))

\* A greedy repeat after count iterations, at offset i; last is where the
\* iteration before began (-1: none).  Below min the body must match; from
\* min on the body is tried first, unless the iteration before was empty,
\* and then the repeat ends here.
RepGreedy(body, min, max, count, v, i, last) ==
    IF count < min
    THEN Uniq(FlatMap(LAMBDA e : RepGreedy(body, min, max, count + 1, v, e, last),
                      Ends(body, v, i)))
    ELSE LET more == IF (max = Infinite \/ count < max) /\ i # last
                     THEN FlatMap(LAMBDA e : RepGreedy(body, min, max,
                                                       count + 1, v, e, i),
                                  Ends(body, v, i))
                     ELSE <<>>
         IN Uniq(Append(more, i))

\* A lazy repeat: from min on the repeat ends here first, and then the body
\* is tried.
RepLazy(body, min, max, count, v, i, last) ==
    IF count < min
    THEN Uniq(FlatMap(LAMBDA e : RepLazy(body, min, max, count + 1, v, e, last),
                      Ends(body, v, i)))
    ELSE LET more == IF (max = Infinite \/ count < max) /\ i # last
                     THEN FlatMap(LAMBDA e : RepLazy(body, min, max,
                                                     count + 1, v, e, i),
                                  Ends(body, v, i))
                     ELSE <<>>
         IN Uniq(<<i>> \o more)

\* A possessive repeat: every iteration keeps the first match of the body.
RepPossessive(body, min, max, count, v, i, last) ==
    IF count >= min /\ ~((max = Infinite \/ count < max) /\ i # last)
    THEN <<i>>
    ELSE LET Kept(es) ==
                 IF es = <<>> THEN (IF count < min THEN <<>> ELSE <<i>>)
                 ELSE RepPossessive(body, min, max, count + 1, v, es[1],
                                    IF count < min THEN last ELSE i)
         IN Kept(Ends(body, v, i))

\* pattern.match at offset s of v: the end of the match, or -1.  noEmpty is
\* the engine's must_advance: an empty match is refused.
MatchEnd(p, v, s, noEmpty) ==
    LET First(es) == IF es = <<>> THEN -1 ELSE es[1]
    IN First(SelectSeq(Ends(p.node, v, s), LAMBDA e : ~(noEmpty /\ e = s)))

\* pattern.search from offset start: <<s, e>> of the leftmost match, or <<>>.
\* With a class in the info block, a match is tried only at a character of
\* that class.
RECURSIVE SearchFrom(_, _, _, _, _)
SearchFrom(p, v, s, start, must_advance) ==
    IF s > Len(v) THEN <<>>
    ELSE LET tried == p.pre = <<>> \/ (s < Len(v) /\ InClass(v[s + 1], p.pre[1]))
             Matched(e) ==
                 IF tried /\ e >= 0 THEN <<s, e>>
                 ELSE SearchFrom(p, v, s + 1, start, must_advance)
         IN Matched(MatchEnd(p, v, s, must_advance /\ s = start))

Search(p, v, start, must_advance) == SearchFrom(p, v, start, start, must_advance)

\* pattern.finditer(v): the spans <<start, end>> of the non-overlapping
\* matches, left to right.  After an empty match the next one must advance.
RECURSIVE FinditerFrom(_, _, _, _)
FinditerFrom(p, v, start, must_advance) ==
    LET Found(m) ==
            IF m = <<>> THEN <<>>
            ELSE <<m>> \o FinditerFrom(p, v, m[2], m[2] = m[1])
    IN Found(Search(p, v, start, must_advance))

Finditer(p, v) == FinditerFrom(p, v, 0, FALSE)

-----------------------------------------------------------------------------
(* SanitizerRule.scrub                                                     *)

\* A replacement that tiles whole placeholders only, without the remainder.
ReplacementNoRemainder(matched_text, ph, ml) ==
    IF ~ml THEN ph
    ELSE Repeat(ph, Len(matched_text) \div Len(ph))

\* _replacement(match); the placeholder is not empty when maintain_length.
Replacement(matched_text, ph, ml) ==
    IF ~ml THEN ph
    ELSE IF Len(ph) = 1 THEN Repeat(ph, Len(matched_text))
    ELSE LET repetitions == Len(matched_text) \div Len(ph)
             remainder == Len(matched_text) % Len(ph)
         IN Repeat(ph, repetitions) \o Slice(ph, 0, remainder)

\* divmod(len(matched_text), 0): the replacement callback raises
\* ZeroDivisionError on the first match.
ScrubRaises(rule, v, ph, ml) ==
    ml /\ Len(ph) = 0 /\ Finditer(rule.pattern, v) # <<>>

\* pattern.sub(_replacement, v): copy v[i:b], append the replacement of
\* v[b:e], continue from e; at the end copy the rest.
RECURSIVE SubFrom(_, _, _, _, _, _, _)
SubFrom(p, v, ph, ml, i, start, must_advance) ==
    LET Found(m) ==
            IF m = <<>> THEN Slice(v, i, Len(v))
            ELSE Slice(v, i, m[1])
                 \o Replacement(Slice(v, m[1], m[2]), ph, ml)
                 \o SubFrom(p, v, ph, ml, m[2], m[2], m[2] = m[1])
    IN Found(Search(p, v, start, must_advance))

\* A scrub that replaces the first match only.
ScrubFirstMatchOnly(rule, v, ph, ml) ==
    LET Found(m) ==
            IF m = <<>> THEN v
            ELSE Slice(v, 0, m[1])
                 \o Replacement(Slice(v, m[1], m[2]), ph, ml)
                 \o Slice(v, m[2], Len(v))
    IN Found(Search(rule.pattern, v, 0, FALSE))

\* rule.scrub(v, ph, ml), when it does not raise.
Scrub(rule, v, ph, ml) == SubFrom(rule.pattern, v, ph, ml, 0, 0, FALSE)

-----------------------------------------------------------------------------
(* LogSanitizer._sanitise_file: the rules in order, each on the output of  *)
(* the one before.  [raised, text]: raised when a scrub raised.            *)

RECURSIVE SanitiseFrom(_, _, _, _, _)
SanitiseFrom(rs, k, text, ph, ml) ==
    IF k > Len(rs) THEN [raised |-> FALSE, text |-> text]
    ELSE IF ScrubRaises(rs[k], text, ph, ml)
    THEN [raised |-> TRUE, text |-> <<>>]
    ELSE SanitiseFrom(rs, k + 1, Scrub(rs[k], text, ph, ml), ph, ml)

\* A pipeline whose loop scrubs the original content with every rule, so
\* that the last rule's output of the original is what is left.
SanitiseFileOnOriginal(rs, content, ph, ml) ==
    IF \E k \in 1..Len(rs) : ScrubRaises(rs[k], content, ph, ml)
    THEN [raised |-> TRUE, text |-> <<>>]
    ELSE [raised |-> FALSE,
          text |-> IF rs = <<>> THEN content
                   ELSE Scrub(rs[Len(rs)], content, ph, ml)]

SanitiseFile(rs, content, ph, ml) == SanitiseFrom(rs, 1, content, ph, ml)

-----------------------------------------------------------------------------
(* Reading a text file.  A file is [exists, content] (the rules file, the  *)
(* ignore file) or [content, readable] (a file of the trees); content is   *)
(* the characters the file's bytes decode to.                              *)

\* Path.read_text: the text mode of open translates "\r\n" and "\r" into
\* "\n".
RECURSIVE ReadText(_)
ReadText(content) ==
    IF content = <<>> THEN <<>>
    ELSE IF Head(content) = "\r"
    THEN <<"\n">> \o ReadText(IF IsAt(content, 1, "\n")
                              THEN Tail(Tail(content)) ELSE Tail(content))
    ELSE <<Head(content)>> \o ReadText(Tail(content))

\* str.splitlines(), from offset i on, line the characters of the current
\* line: a line ends at a line boundary, "\r\n" is one boundary, and a text
\* that ends with a boundary has no empty last line.
RECURSIVE SplitLinesFrom(_, _, _)
SplitLinesFrom(text, i, line) ==
    IF i >= Len(text) THEN (IF line = <<>> THEN <<>> ELSE <<line>>)
    ELSE IF text[i + 1] = "\r" /\ IsAt(text, i + 1, "\n")
    THEN <<line>> \o SplitLinesFrom(text, i + 2, <<>>)
    ELSE IF text[i + 1] \in LineBreaks
    THEN <<line>> \o SplitLinesFrom(text, i + 1, <<>>)
    ELSE SplitLinesFrom(text, i + 1, Append(line, text[i + 1]))

SplitLines(text) == SplitLinesFrom(text, 0, <<>>)

\* path.read_text().splitlines()
ReadLines(file) == SplitLines(ReadText(file.content))

-----------------------------------------------------------------------------
(* LogSanitizer._load_rules                                                *)

\* line.strip()
RECURSIVE LStrip(_)
LStrip(line) ==
    IF line # <<>> /\ Head(line) \in Whitespace THEN LStrip(Tail(line))
    ELSE line

RECURSIVE RStrip(_)
RStrip(line) ==
    IF line # <<>> /\ line[Len(line)] \in Whitespace
    THEN RStrip(SubSeq(line, 1, Len(line) - 1))
    ELSE line

Strip(line) == RStrip(LStrip(line))

\* not rule_text or rule_text.startswith("#")
IsSkipped(rule_text) == rule_text = <<>> \/ rule_text[1] = "#"

NoError == [kind |-> "none", line |-> 0]

\* The loop over enumerate(lines, start=1) from line idx on, acc the rules
\* appended so far, and the check after it.  [error, rules]: error is what
\* the call raised, with the line its message names (0: none).  Only
\* re.error is caught and raised again with the line; the OverflowError and
\* the ValueError of re.compile leave _load_rules as they are.  A line whose
\* pattern is not modelled ends the load with the kind "unsupported pattern".
RECURSIVE LoadRulesFrom(_, _, _)
LoadRulesFrom(lines, idx, acc) ==
    IF idx > Len(lines)
    THEN IF acc = <<>>
         THEN [error |-> [kind |-> "ValueError: No sanitization rules found",
                          line |-> 0],
               rules |-> <<>>]
         ELSE [error |-> NoError, rules |-> acc]
    ELSE LET Raise(kind, line) ==
                 [error |-> [kind |-> kind, line |-> line], rules |-> <<>>]
             \* pattern is what re.compile(rule_text) gave
             Compiled(rule_text, pattern) ==
                 IF pattern.st = "error"
                 THEN Raise("ValueError: Invalid regex", idx)
                 ELSE IF pattern.st = "overflow"
                 THEN Raise("OverflowError", 0)
                 ELSE IF pattern.st = "value"
                 THEN Raise("ValueError: ASCII and UNICODE flags are incompatible",
                            0)
                 ELSE IF pattern.st = "unsupported"
                 THEN Raise("unsupported pattern", idx)
                 ELSE LoadRulesFrom(
                          lines, idx + 1,
                          Append(acc, [description |-> rule_text,
                                       pattern |-> [node |-> pattern.node,
                                                    pre |-> pattern.pre]]))
             Line(rule_text) ==
                 IF IsSkipped(rule_text)
                 THEN LoadRulesFrom(lines, idx + 1, acc)
                 ELSE Compiled(rule_text, Parse(rule_text))
         IN Line(Strip(lines[idx]))

\* _load_rules(rules_path): [error, rules]; rules is what the call returns,
\* and is empty when it raises.
LoadRules(file) ==
    IF ~file.exists
    THEN [error |-> [kind |-> "FileNotFoundError", line |-> 0], rules |-> <<>>]
    ELSE LoadRulesFrom(ReadLines(file), 1, <<>>)

\* _load_ignore_patterns(ignore_path); main passes None for a file that does
\* not exist, and the loader returns [] for both.
RECURSIVE IgnoreTokens(_)
IgnoreTokens(lines) ==
    IF lines = <<>> THEN <<>>
    ELSE LET token == Strip(Head(lines)) IN
         IF IsSkipped(token) THEN IgnoreTokens(Tail(lines))
         ELSE <<token>> \o IgnoreTokens(Tail(lines))

LoadIgnorePatterns(file) ==
    IF ~file.exists THEN <<>> ELSE IgnoreTokens(ReadLines(file))

-----------------------------------------------------------------------------
(* Paths: pathlib's relative_to, "/", str, name and ordering.              *)

\* Path < Path: the parts compared as a list of strings.
RECURSIVE PathLess(_, _)
PathLess(p, q) ==
    IF q = <<>> THEN FALSE
    ELSE IF p = <<>> THEN TRUE
    ELSE IF Head(p) = Head(q) THEN PathLess(Tail(p), Tail(q))
    ELSE StrLess(Head(p), Head(q))

\* sorted(paths)
RECURSIVE SortPaths(_)
SortPaths(S) ==
    IF S = {} THEN <<>>
    ELSE LET first == CHOOSE p \in S : \A q \in S \ {p} : PathLess(p, q)
         IN <<first>> \o SortPaths(S \ {first})

\* d is p or an ancestor of p.
IsPrefix(d, p) == Len(d) <= Len(p) /\ SubSeq(p, 1, Len(d)) = d

\* p.relative_to(d), for p under d
RelativeTo(p, d) == SubSeq(p, Len(d) + 1, Len(p))

\* p.parent
Parent(p) == SubSeq(p, 1, Len(p) - 1)

\* p.name
Name(p) == p[Len(p)]

\* str(p): the parts joined by "/"
RECURSIVE PathStr(_)
PathStr(p) ==
    IF p = <<>> THEN <<>>
    ELSE IF Len(p) = 1 THEN p[1]
    ELSE p[1] \o <<"/">> \o PathStr(Tail(p))

-----------------------------------------------------------------------------
(* fnmatch.fnmatch(name, pat): literal characters, "*", "?" and the        *)
(* classes [seq] and [!seq] with their ranges, as fnmatch.translate reads  *)
(* them.                                                                   *)

\* The 0-based offset of the first c in s at or after offset k, or -1.
RECURSIVE Find(_, _, _)
Find(s, c, k) ==
    IF k >= Len(s) THEN -1
    ELSE IF s[k + 1] = c THEN k
    ELSE Find(s, c, k + 1)

\* pat begins with "[": the offset of the "]" that closes the class, or -1.
\* A "]" right after the "[" or the "[!" does not close it.
ClassEnd(pat) ==
    LET j1 == IF IsAt(pat, 1, "!") THEN 2 ELSE 1
        j2 == IF IsAt(pat, j1, "]") THEN j1 + 1 ELSE j1
    IN Find(pat, "]", j2)

\* The chunks of stuff[i:], cut at its hyphens, the next hyphen looked for
\* from offset k on; a hyphen at the end goes to the last chunk.
RECURSIVE SplitChunks(_, _, _, _)
SplitChunks(stuff, i, k, acc) ==
    LET h == Find(stuff, "-", k) IN
    IF h < 0
    THEN IF i < Len(stuff) THEN Append(acc, Slice(stuff, i, Len(stuff)))
         ELSE Append(SubSeq(acc, 1, Len(acc) - 1),
                     Append(acc[Len(acc)], "-"))
    ELSE SplitChunks(stuff, h + 1, h + 3, Append(acc, Slice(stuff, i, h)))

\* The loop that removes the ranges lo-hi with lo > hi, from chunk k down:
\* both ends are dropped and the two chunks joined.
RECURSIVE DropEmptyRanges(_, _)
DropEmptyRanges(chunks, k) ==
    IF k < 2 THEN chunks
    ELSE LET left == chunks[k - 1]
             right == chunks[k]
         IN IF Code[left[Len(left)]] > Code[right[1]]
            THEN DropEmptyRanges(
                     SubSeq(chunks, 1, k - 2)
                     \o <<SubSeq(left, 1, Len(left) - 1) \o Tail(right)>>
                     \o SubSeq(chunks, k + 1, Len(chunks)),
                     k - 1)
            ELSE DropEmptyRanges(chunks, k - 1)

\* The chunks of the class stuff; between two chunks is a range from the
\* last character of the one to the first of the other.
Chunks(stuff) ==
    IF Find(stuff, "-", 0) < 0 THEN <<stuff>>
    ELSE LET Kept(cs) == DropEmptyRanges(cs, Len(cs))
         IN Kept(SplitChunks(stuff, 0, IF stuff[1] = "!" THEN 2 ELSE 1, <<>>))

\* The character c is in the class [stuff].
InFnClass(c, stuff) ==
    LET Holds(body) ==
            \/ \E k \in 1..Len(body) : \E j \in 1..Len(body[k]) :
                    body[k][j] = c
            \/ \E k \in 2..Len(body) :
                    /\ Code[body[k - 1][Len(body[k - 1])]] <= Code[c]
                    /\ Code[c] <= Code[body[k][1]]
        Within(cs, negate) ==
            IF cs = <<(<<>>)>> THEN FALSE
            ELSE IF cs = <<(<<"!">>)>> THEN TRUE
            ELSE Holds(IF negate THEN <<Tail(cs[1])>> \o Tail(cs) ELSE cs)
                 # negate
        Of(cs) == Within(cs, cs[1] # <<>> /\ cs[1][1] = "!")
    IN Of(Chunks(stuff))

RECURSIVE Fnmatch(_, _)
Fnmatch(name, pat) ==
    IF pat = <<>> THEN name = <<>>
    ELSE IF Head(pat) = "*"
    THEN Fnmatch(name, Tail(pat))
         \/ (name # <<>> /\ Fnmatch(Tail(name), pat))
    ELSE IF Head(pat) = "?"
    THEN name # <<>> /\ Fnmatch(Tail(name), Tail(pat))
    ELSE IF Head(pat) = "[" /\ ClassEnd(pat) >= 0
    THEN /\ name # <<>>
         /\ InFnClass(Head(name), Slice(pat, 1, ClassEnd(pat)))
         /\ Fnmatch(Tail(name), SubSeq(pat, ClassEnd(pat) + 2, Len(pat)))
    ELSE name # <<>> /\ Head(name) = Head(pat)
         /\ Fnmatch(Tail(name), Tail(pat))

\* An ignore matcher that compares the relative path only.
IsIgnoredByRelativePath(path, src, patterns) ==
    \E k \in 1..Len(patterns) :
        Fnmatch(PathStr(RelativeTo(path, src)), patterns[k])

\* LogSanitizer._is_ignored(path)
IsIgnored(path, src, patterns) ==
    \E k \in 1..Len(patterns) :
        \/ Fnmatch(PathStr(RelativeTo(path, src)), patterns[k])
        \/ Fnmatch(Name(path), patterns[k])

-----------------------------------------------------------------------------
(* The file system operations sanitise makes.                              *)

\* path.is_file()
IsFile(fs, path) == path \in DOMAIN fs

\* source_dir.rglob("*"): everything below the directory.
Rglob(fs, ds, src) ==
    {p \in (DOMAIN fs) \cup ds : IsPrefix(src, p) /\ p # src}

\* The path and its ancestors, the shortest first.
Prefixes(path) == [k \in 1..Len(path) |-> SubSeq(path, 1, k)]

\* path.mkdir(parents=True, exist_ok=True): the directories are made from
\* the top down; a regular file on the way raises (FileExistsError,
\* NotADirectoryError) and leaves what was made above it.
\* [ok, made]: made are the directories it created.
Mkdir(fs, ds, path) ==
    LET blocked == {k \in 1..Len(path) : Prefixes(path)[k] \in DOMAIN fs}
        upto == IF blocked = {} THEN Len(path)
                ELSE (CHOOSE k \in blocked : \A j \in blocked : k <= j) - 1
    IN [ok |-> blocked = {},
        made |-> {Prefixes(path)[k] : k \in 1..upto} \ ds]

\* A destination that overwrites the source file.
DestinationInPlace(path, src, out) == src \o RelativeTo(path, src)

\* config.output_dir / source_path.relative_to(config.source_dir)
Destination(path, src, out) == out \o RelativeTo(path, src)

-----------------------------------------------------------------------------
(* The inputs of the pure-function specification.                          *)

\* A digit, an ASCII letter, a letter outside ASCII and a character that is
\* not of a word.
TextAlphabet == {"1", "A", "é", "*"}

RECURSIVE SeqsUpTo(_, _)
SeqsUpTo(S, n) ==
    IF n = 0 THEN {<<>>}
    ELSE LET shorter == SeqsUpTo(S, n - 1)
         IN shorter \cup {Append(s, x) : s \in shorter, x \in S}

Texts == SeqsUpTo(TextAlphabet, MaxLen)

\* The patterns \d+, [A-Z]{2,} and \b\d of the rules files.
DigitsLine == <<"\\", "d", "+">>
UpperLine == <<"[", "A", "-", "Z", "]", "{", "2", ",", "}">>
BoundaryLine == <<"\\", "b", "\\", "d">>

\* \d+ and [A-Z]{2,}, in lists of up to MaxRules rules.
ScrubLines == {DigitsLine, UpperLine}

\* In a list of its own: \b\d; \d*, whose empty matches make the text grow
\* with every rule; \dA, A|11 and 1(?>1A|)1|A with its atomic group; A1?,
\* the lazy 1+?A and (?i)a{2}|\w1, matched without regard to case.
StarLine == <<"\\", "d", "*">>
SingleLines == {BoundaryLine, StarLine, <<"\\", "d", "A">>,
                <<"A", "|", "1", "1">>,
                <<"1", "(", "?", ">", "1", "A", "|", ")", "1", "|", "A">>,
                <<"A", "1", "?">>,
                <<"1", "+", "?", "A">>,
                <<"(", "?", "i", ")", "a", "{", "2", "}", "|", "\\", "w", "1">>}

RuleLists ==
    (SeqsUpTo({SanitizerRule(l) : l \in ScrubLines}, MaxRules) \ {<<>>})
    \cup {<<SanitizerRule(l)>> : l \in SingleLines}

\* Empty, one character, and two characters (a word character and another),
\* none of them matched by a rule above.
Placeholders == {<<>>, <<"*">>, <<"x", "*">>}

OrderShipped == <<"O", "r", "d", "e", "r", " ", "1", "2", "3", "4", "5", " ",
                  "s", "h", "i", "p", "p", "e", "d">>
IdNameBob == <<"I", "D", " ", "1", "2", "3", "4", "5", " ", "N", "A", "M",
               "E", " ", "B", "O", "B">>
Redacted == <<"R", "E", "D", "A", "C", "T", "E", "D">>

\* The scenarios of src/tests/test_sanitizer.py.
Examples ==
    {[value |-> OrderShipped, rules |-> <<SanitizerRule(DigitsLine)>>,
      placeholder |-> <<"*">>, maintain_length |-> TRUE],
     [value |-> OrderShipped, rules |-> <<SanitizerRule(DigitsLine)>>,
      placeholder |-> Redacted, maintain_length |-> FALSE],
     [value |-> IdNameBob,
      rules |-> <<SanitizerRule(DigitsLine), SanitizerRule(UpperLine)>>,
      placeholder |-> <<"X">>, maintain_length |-> TRUE],
     \* test_main_end_to_end: the rule email@example.com, --placeholder
     \* [redacted], --strip-length
     [value |-> <<"C", "o", "n", "t", "a", "c", "t", " ", "e", "m", "a",
                 "i", "l", "@", "e", "x", "a", "m", "p", "l", "e", ".",
                 "c", "o", "m", " ", "f", "o", "r", " ", "d", "e", "t",
                 "a", "i", "l", "s">>,
      rules |-> <<SanitizerRule(
                    <<"e", "m", "a", "i", "l", "@", "e", "x", "a", "m",
                      "p", "l", "e", ".", "c", "o", "m">>)>>,
      placeholder |-> <<"[", "r", "e", "d", "a", "c", "t", "e", "d", "]">>,
      maintain_length |-> FALSE]}

NotRun == [raised |-> FALSE, text |-> <<>>]

NoFile == [exists |-> FALSE, content |-> <<>>]

\* No run of main: the pure-function specifications leave the run alone.
NoRun ==
    /\ source_dir = <<>> /\ output_dir = <<>>
    /\ ignore_file = NoFile /\ ignore_patterns = <<>>
    /\ files = <<>> /\ dirs = {}
    /\ pc = "none" /\ listing = <<>> /\ source_path = <<>>
    /\ files0 = <<>> /\ dirs0 = {}
    /\ dispatched = {} /\ attempted = <<>> /\ read_log = <<>>
    /\ written = <<>> /\ created = {} /\ failed = <<>> /\ vanished = {}

ScrubInit ==
    /\ \/ /\ value \in Texts
          /\ rules \in RuleLists
          /\ placeholder \in Placeholders
          /\ maintain_length \in BOOLEAN
       \/ \E e \in Examples :
            /\ value = e.value
            /\ rules = e.rules
            /\ placeholder = e.placeholder
            /\ maintain_length = e.maintain_length
    /\ stage = "input"
    /\ scrubbed = NotRun
    /\ result = NotRun
    /\ rerun = NotRun
    /\ rules_file = NoFile
    /\ load_error = NoError
    /\ NoRun

\* rules[0].scrub(value, placeholder, maintain_length)
ScrubFirst ==
    /\ stage = "input"
    /\ stage' = "scrubbed"
    /\ scrubbed' =
         IF ScrubRaises(rules[1], value, placeholder, maintain_length)
         THEN [raised |-> TRUE, text |-> <<>>]
         ELSE [raised |-> FALSE,
               text |-> Scrub(rules[1], value, placeholder, maintain_length)]
    /\ UNCHANGED <<value, rules, placeholder, maintain_length, result, rerun>>
    /\ UNCHANGED <<loadVars, runVars, logVars>>

\* _sanitise_file(value)
Sanitise ==
    /\ stage = "scrubbed"
    /\ stage' = "sanitised"
    /\ result' = SanitiseFile(rules, value, placeholder, maintain_length)
    /\ UNCHANGED <<value, rules, placeholder, maintain_length, scrubbed, rerun>>
    /\ UNCHANGED <<loadVars, runVars, logVars>>

\* _sanitise_file on its own output
Rerun ==
    /\ stage = "sanitised"
    /\ ~result.raised
    /\ stage' = "rerun"
    /\ rerun' = SanitiseFile(rules, result.text, placeholder, maintain_length)
    /\ UNCHANGED <<value, rules, placeholder, maintain_length, scrubbed, result>>
    /\ UNCHANGED <<loadVars, runVars, logVars>>

ScrubNext == ScrubFirst \/ Sanitise \/ Rerun

SpecScrub == ScrubInit /\ [][ScrubNext]_vars

-----------------------------------------------------------------------------
(* Properties of SanitizerRule.scrub.                                      *)

Scrubbed == stage # "input"

\* The spans, among spans, that hold the 1-based index i.
SpansAt(spans, i) ==
    {k \in 1..Len(spans) : spans[k][1] < i /\ i <= spans[k][2]}

\* C6: with maintain_length (and a placeholder to tile) scrub puts, on every
\* character of a match, the placeholder character of the same offset modulo
\* the placeholder's length (q whole placeholders, then its first r
\* characters), keeps every character outside the matches, and so keeps the
\* length; "Order 12345 shipped" under \d+ and "*" is "Order ***** shipped".
ScrubMaintainsLength ==
    (Scrubbed /\ maintain_length /\ Len(placeholder) >= 1) =>
        LET spans == Finditer(rules[1].pattern, value) IN
        /\ ~scrubbed.raised
        /\ Len(scrubbed.text) = Len(value)
        /\ \A i \in 1..Len(value) :
              LET at == SpansAt(spans, i) IN
              IF at = {}
              THEN scrubbed.text[i] = value[i]
              ELSE LET k == CHOOSE x \in at : TRUE
                       offset == i - 1 - spans[k][1]
                   IN scrubbed.text[i] =
                          placeholder[(offset % Len(placeholder)) + 1]
        /\ (value = OrderShipped /\ placeholder = <<"*">>) =>
              scrubbed.text = <<"O", "r", "d", "e", "r", " ", "*", "*", "*",
                                "*", "*", " ", "s", "h", "i", "p", "p", "e",
                                "d">>

\* A match of three characters tiled with a placeholder of two.
ScrubMaintainsLengthWitness ==
    /\ stage = "scrubbed"
    /\ maintain_length
    /\ Len(placeholder) = 2
    /\ value = <<"1", "1", "1">>
    /\ Finditer(rules[1].pattern, value) = <<(<<0, 3>>)>>
    /\ scrubbed.text = <<"x", "*", "x">>

\* The text scrub is to give without maintain_length, built from the last
\* match backwards: the text before the k-th match, then the placeholder.
RECURSIVE LiteralUpTo(_, _, _, _)
LiteralUpTo(spans, k, v, ph) ==
    IF k = 0 THEN <<>>
    ELSE LiteralUpTo(spans, k - 1, v, ph)
         \o Slice(v, IF k = 1 THEN 0 ELSE spans[k - 1][2], spans[k][1])
         \o ph

\* C7: without maintain_length the matches are disjoint and in order, no
\* match is left outside them, and scrub gives the text with each match
\* replaced by the placeholder itself and the rest kept;
\* "Order 12345 shipped" under \d+ and "REDACTED" is "Order REDACTED shipped",
\* and the text of test_main_end_to_end, the one scenario with a placeholder
\* of ten characters, becomes "Contact [redacted] for details".
ScrubLiteralPlaceholder ==
    (Scrubbed /\ ~maintain_length) =>
        LET spans == Finditer(rules[1].pattern, value)
            n == Len(spans)
            lastEnd == IF n = 0 THEN 0 ELSE spans[n][2]
        IN
        /\ ~scrubbed.raised
        /\ \A k \in 1..n :
              /\ spans[k][1] <= spans[k][2]
              /\ k > 1 => spans[k - 1][2] <= spans[k][1]
        /\ \A s \in 0..(Len(value) - 1) :
              MatchEnd(rules[1].pattern, value, s, TRUE) >= 0 =>
                  \E k \in 1..n : spans[k][1] <= s /\ s < spans[k][2]
        /\ scrubbed.text =
              LiteralUpTo(spans, n, value, placeholder)
              \o Slice(value, lastEnd, Len(value))
        /\ (value = OrderShipped /\ placeholder = Redacted) =>
              scrubbed.text = <<"O", "r", "d", "e", "r", " ", "R", "E", "D",
                                "A", "C", "T", "E", "D", " ", "s", "h", "i",
                                "p", "p", "e", "d">>
        /\ Len(placeholder) = 10 =>
              scrubbed.text = <<"C", "o", "n", "t", "a", "c", "t", " ", "[",
                                "r", "e", "d", "a", "c", "t", "e", "d", "]",
                                " ", "f", "o", "r", " ", "d", "e", "t", "a",
                                "i", "l", "s">>

\* Matches of two characters and of none, each replaced by the placeholder.
ScrubLiteralPlaceholderWitness ==
    /\ stage = "scrubbed"
    /\ ~maintain_length
    /\ placeholder = <<"x", "*">>
    /\ value = <<"1", "1", "A">>
    /\ Finditer(rules[1].pattern, value) = <<(<<0, 2>>), (<<2, 2>>), (<<3, 3>>)>>
    /\ scrubbed.text = <<"x", "*", "x", "*", "A", "x", "*">>

-----------------------------------------------------------------------------
(* Idempotence of _sanitise_file.                                          *)

CharsOf(s) == {s[i] : i \in 1..Len(s)}

\* Some character class of the pattern n holds the character c.
RECURSIVE Accepts(_, _)
Accepts(n, c) ==
    CASE n.op = "in" -> InClass(c, n)
      [] n.op = "at" -> FALSE
      [] n.op = "seq" -> \E k \in 1..Len(n.items) : Accepts(n.items[k], c)
      [] n.op = "alt" ->
            \E k \in 1..Len(n.branches) : Accepts(n.branches[k], c)
      [] OTHER -> Accepts(n.body, c)

\* The pattern n can match without a character.
RECURSIVE Nullable(_)
Nullable(n) ==
    CASE n.op = "in" -> FALSE
      [] n.op \in {"at", "ahead", "notahead", "behind", "notbehind"} -> TRUE
      [] n.op = "seq" -> \A k \in 1..Len(n.items) : Nullable(n.items[k])
      [] n.op = "alt" -> \E k \in 1..Len(n.branches) : Nullable(n.branches[k])
      [] n.op = "rep" -> n.min = 0 \/ Nullable(n.body)
      [] OTHER -> Nullable(n.body)

\* The pattern n has an assertion, an atomic group or a possessive
\* quantifier: whether it matches depends on the text around the match.
RECURSIVE LooksAround(_)
LooksAround(n) ==
    CASE n.op = "in" -> FALSE
      [] n.op \in {"at", "ahead", "notahead", "behind", "notbehind",
                   "atomic"} -> TRUE
      [] n.op = "seq" -> \E k \in 1..Len(n.items) : LooksAround(n.items[k])
      [] n.op = "alt" ->
            \E k \in 1..Len(n.branches) : LooksAround(n.branches[k])
      [] n.op = "rep" -> n.mode = "possessive" \/ LooksAround(n.body)
      [] OTHER -> LooksAround(n.body)

\* No rule matches in a text made of placeholder characters: none of them is
\* in a rule's classes, and no rule matches the empty string.
Disjoint ==
    \A k \in 1..Len(rules) :
        /\ \A c \in CharsOf(placeholder) : ~Accepts(rules[k].pattern.node, c)
        /\ ~Nullable(rules[k].pattern.node)

\* No rule looks at the text around its match.
ContextFree == \A k \in 1..Len(rules) : ~LooksAround(rules[k].pattern.node)

\* C9, as stated: with a placeholder disjoint from the rules, sanitising the
\* sanitised text again changes nothing.
SanitiseIdempotent ==
    (stage = "rerun" /\ Disjoint) => rerun = result

\* C9, amended: the same, for a placeholder that is not empty and rules
\* without an assertion, an atomic group or a possessive quantifier.
SanitiseIdempotentContextFree ==
    (stage = "rerun" /\ Disjoint /\ ContextFree /\ Len(placeholder) >= 1) =>
        rerun = result

\* A second run over a text the first run changed, two rules applied.
SanitiseIdempotentWitness ==
    /\ stage = "rerun"
    /\ Disjoint /\ ContextFree /\ Len(placeholder) >= 1
    /\ Len(rules) = 2 /\ rules[1] # rules[2]
    /\ result.text # value
    /\ \A k \in 1..2 : Finditer(rules[k].pattern, value) # <<>>
    /\ rerun = result

-----------------------------------------------------------------------------
(* The rules loader and the pipeline behind it: LogSanitizer(config), then *)
(* _sanitise_file on a text.                                               *)

\* U+00A0, a space that is not ASCII, and U+0085, a line boundary that is
\* not ASCII.
NoBreakSpace == CHOOSE c \in Characters : Code[c] = 160
NextLine == CHOOSE c \in Characters : Code[c] = 133

\* a{4294967295}: re.compile raises OverflowError.
OverflowLine == <<"a", "{", "4", "2", "9", "4", "9", "6", "7", "2", "9", "5",
                  "}">>

\* white space, a comment after white space, \d+, a padded [A-Z]{2,},
\* \b\d, the pattern "(", and a{4294967295}.
RuleLines == {<<" ", "\t">>, <<"\t", "#", "\\", "d">>, DigitsLine,
              <<NoBreakSpace>> \o UpperLine \o <<" ">>, BoundaryLine,
              <<"(">>, OverflowLine}

\* The text of a file with the lines, each followed by end.
RECURSIVE JoinLines(_, _)
JoinLines(lines, end) ==
    IF lines = <<>> THEN <<>>
    ELSE Head(lines) \o end \o JoinLines(Tail(lines), end)

\* Rules files with other line ends: "\r\n", and an empty line; "\r" and a
\* form feed, and no end of the last line; U+0085.
OtherRulesFiles ==
    {[exists |-> TRUE,
      content |-> JoinLines(<<DigitsLine, <<>>, UpperLine>>, <<"\r", "\n">>)],
     [exists |-> TRUE,
      content |-> DigitsLine \o <<"\r", "#", "x", "\f">> \o UpperLine],
     [exists |-> TRUE,
      content |-> DigitsLine \o <<NextLine, "(">>]}

RulesFiles ==
    {NoFile}
    \cup {[exists |-> TRUE, content |-> JoinLines(l, <<"\n">>)] :
            l \in SeqsUpTo(RuleLines, MaxLines)}
    \cup OtherRulesFiles

\* The rules file of test_load_rules_and_ignore.
TestRulesFile ==
    [exists |-> TRUE,
     content |-> <<"#", " ", "c", "o", "m", "m", "e", "n", "t", " ", "l", "i",
                   "n", "e", "\n">>
                 \o Repeat(<<" ">>, 8) \o DigitsLine \o <<"\n">>
                 \o Repeat(<<" ">>, 8) \o UpperLine]

LoadTexts == {IdNameBob, <<"A", "A", "1", "1">>, <<"1", " ", "A", "1", "A">>}

LoadInit ==
    /\ \/ /\ rules_file \in RulesFiles
          /\ value \in LoadTexts
          /\ placeholder \in {<<"*">>, <<"A", "1">>}
          /\ maintain_length \in BOOLEAN
       \/ /\ rules_file = TestRulesFile
          /\ value = IdNameBob
          /\ placeholder = <<"X">>
          /\ maintain_length = TRUE
    /\ rules = <<>>
    /\ load_error = NoError
    /\ stage = "start"
    /\ scrubbed = NotRun
    /\ result = NotRun
    /\ rerun = NotRun
    /\ NoRun

\* LogSanitizer.__init__: self.rules = self._load_rules(config.rules_file)
Load ==
    /\ stage = "start"
    /\ LET With(loaded) ==
               /\ rules' = loaded.rules
               /\ load_error' = loaded.error
               /\ stage' = IF loaded.error = NoError THEN "loaded"
                           ELSE "config_error"
       IN With(LoadRules(rules_file))
    /\ UNCHANGED <<value, placeholder, maintain_length, scrubbed, result,
                   rerun, rules_file, runVars, logVars>>

\* _sanitise_file(value) with the loaded rules
SanitiseLoaded ==
    /\ stage = "loaded"
    /\ stage' = "sanitised"
    /\ result' = SanitiseFile(rules, value, placeholder, maintain_length)
    /\ UNCHANGED <<value, rules, placeholder, maintain_length, scrubbed, rerun,
                   rules_file, load_error, runVars, logVars>>

LoadNext == Load \/ SanitiseLoaded

SpecLoad == LoadInit /\ [][LoadNext]_vars

-----------------------------------------------------------------------------
(* Properties of the loader.                                               *)

Loaded == stage \in {"loaded", "config_error", "sanitised"}

\* The lines of the rules file.
RulesFileLines == ReadLines(rules_file)

\* The lines of the rules file that are a rule: not blank and not a comment
\* once trimmed.
IsRuleLine(line) ==
    /\ \E i \in 1..Len(line) : line[i] \notin Whitespace
    /\ LET first == CHOOSE i \in 1..Len(line) :
                        /\ line[i] \notin Whitespace
                        /\ \A j \in 1..(i - 1) : line[j] \in Whitespace
       IN line[first] # "#"

RuleLineNumbers ==
    {i \in 1..Len(RulesFileLines) : IsRuleLine(RulesFileLines[i])}

\* re.compile raises on the text: re.error, OverflowError or ValueError.
IsInvalidRegex(text) == Parse(text).st \in {"error", "overflow", "value"}

\* C10, as stated: _load_rules returns no empty and no partial rule set.  A
\* rules file without a rule line raises the empty-rule-set error; one with
\* a rule line that is not a regular expression raises an error naming the
\* first such line and returns no rule, whatever compiled before; a
\* successful load returns one rule per rule line, in order, each pattern
\* compiled from its description.
LoadRulesAllOrNothing ==
    (Loaded /\ rules_file.exists) =>
        LET invalid == {i \in RuleLineNumbers :
                            IsInvalidRegex(Strip(RulesFileLines[i]))}
        IN
        /\ RuleLineNumbers = {} =>
              /\ load_error.kind = "ValueError: No sanitization rules found"
              /\ rules = <<>>
        /\ invalid # {} =>
              /\ load_error.kind = "ValueError: Invalid regex"
              /\ load_error.line \in invalid
              /\ \A i \in invalid : load_error.line <= i
              /\ rules = <<>>
        /\ load_error = NoError =>
              /\ rules # <<>>
              /\ invalid = {}
              /\ Len(rules) = Cardinality(RuleLineNumbers)
              /\ \A k \in 1..Len(rules) :
                    rules[k].pattern = Compile(rules[k].description)
        /\ (load_error = NoError) = (stage # "config_error")

-----------------------------------------------------------------------------
(* Properties of the pipeline behind the loader.                           *)

\* The line number of the k-th rule line of the rules file.
NthRuleLine(k) ==
    CHOOSE i \in RuleLineNumbers :
        Cardinality({j \in RuleLineNumbers : j < i}) = k - 1

\* The text after the first k rule lines of the rules file, each compiled
\* and scrubbing what the one before it gave.
RECURSIVE ComposedUpTo(_)
ComposedUpTo(k) ==
    IF k = 0 THEN value
    ELSE Scrub(SanitizerRule(Strip(RulesFileLines[NthRuleLine(k)])),
               ComposedUpTo(k - 1), placeholder, maintain_length)

\* C8: the loaded rules are the rule lines of the rules file in the file's
\* order, and _sanitise_file gives the composition of their scrubs, rule k on
\* the output of rule k-1; the rules \d+ and [A-Z]{2,} with placeholder "X"
\* turn "ID 12345 NAME BOB" into "XX XXXXX XXXX XXX".
SanitiseComposesInFileOrder ==
    /\ stage \in {"loaded", "sanitised"} =>
          /\ Len(rules) = Cardinality(RuleLineNumbers)
          /\ \A k \in 1..Len(rules) :
                rules[k].description = Strip(RulesFileLines[NthRuleLine(k)])
    /\ stage = "sanitised" =>
          /\ ~result.raised
          /\ result.text = ComposedUpTo(Cardinality(RuleLineNumbers))
          /\ (rules_file = TestRulesFile /\ placeholder = <<"X">>) =>
                result.text = <<"X", "X", " ", "X", "X", "X", "X", "X", " ",
                                "X", "X", "X", "X", " ", "X", "X", "X">>

\* Two rules whose order shows: [A-Z]{2,} first turns "AA11" into "A111",
\* which \d+ then turns into "AA1A" (the other order gives "A1A1").
SanitiseComposesInFileOrderWitness ==
    /\ stage = "sanitised"
    /\ RulesFileLines = <<<<NoBreakSpace>> \o UpperLine \o <<" ">>,
                          <<"\t", "#", "\\", "d">>, DigitsLine>>
    /\ value = <<"A", "A", "1", "1">>
    /\ placeholder = <<"A", "1">>
    /\ maintain_length
    /\ result.text = <<"A", "A", "1", "A">>

-----------------------------------------------------------------------------
(* A run of main: LogSanitizer(config), then sanitise, one loop iteration  *)
(* at a time, with an environment that may delete a source file meanwhile. *)

CompA == <<"a">>
CompB == <<"b">>
CompS == <<"s">>
CompO == <<"o">>

\* source_dir and output_dir: apart, apart with the parent o of the output
\* directory o/o missing, the output inside the source, the same
\* directory, and the source inside the output.
DirConfigs ==
    {[src |-> <<CompS>>, out |-> <<CompO>>],
     [src |-> <<CompS>>, out |-> <<CompO, CompO>>],
     [src |-> <<CompS>>, out |-> <<CompS, CompO>>],
     [src |-> <<CompS>>, out |-> <<CompS>>],
     [src |-> <<CompO, CompS>>, out |-> <<CompO>>]}

\* The files a source tree may hold, relative to source_dir: a, b and s/a.
SourceRel == {<<CompA>>, <<CompB>>, <<CompS, CompA>>}

\* Their contents; that of b has two lines, the first ended by "\r\n".
ContentOf(rel) ==
    CASE rel = <<CompA>> -> <<"i", "d", " ", "1", "2">>
      [] rel = <<CompB>> -> <<"A", "1", "\r", "\n", "1">>
      [] OTHER -> <<"1", "A", "A">>

\* What is in the way in the output tree before the run: nothing, a
\* directory where the copy of a goes, or a regular file where the
\* directory of the copy of s/a goes.
Obstacles == {"none", "directory at a", "file at s"}

\* The ignore files: none, and one or two lines.
IgnoreFiles ==
    {NoFile}
    \cup {[exists |-> TRUE, content |-> c] :
            c \in {<<"a">>, <<"?", "\n">>, <<"s", "/", "*", "\n">>,
                   <<"s", "/", "a">>, <<"#", "a", "\r", "\n", " ", "b", " ">>,
                   <<"*", "a", "\n">>, <<"b", "\n", "s", "*", "\n">>,
                   <<"#", "*">>, <<"[", "!", "a", "]", "\n">>}}

\* The rules files: none, comments only, a rule and then a line that is not
\* a regular expression (re.error, OverflowError), one rule, two rules.
RunRulesFiles ==
    {NoFile,
     [exists |-> TRUE, content |-> <<"#", "\n", "\n">>],
     [exists |-> TRUE, content |-> DigitsLine \o <<"\n", "(", "\n">>],
     [exists |-> TRUE, content |-> DigitsLine \o <<"\n">> \o OverflowLine],
     [exists |-> TRUE, content |-> DigitsLine \o <<"\n">>],
     [exists |-> TRUE,
      content |-> UpperLine \o <<"\r", "\n", "#", "\r", "\n">> \o DigitsLine]}

Apart(d, e) == ~IsPrefix(d, e) /\ ~IsPrefix(e, d)

\* The directories of a tree that holds the files fs.
DirsOf(fs) == UNION {{SubSeq(p, 1, k) : k \in 1..(Len(p) - 1)} : p \in fs}

RunInit ==
    /\ \E cfg \in DirConfigs, present \in SUBSET SourceRel,
          obstacle \in Obstacles :
        \E unreadable \in SUBSET present :
            LET sources == {cfg.src \o rel : rel \in present}
                blocking == IF obstacle = "file at s"
                            THEN {cfg.out \o <<CompS>>} ELSE {}
                blockdirs == CASE obstacle = "directory at a" ->
                                    {cfg.out, cfg.out \o <<CompA>>}
                               [] obstacle = "file at s" -> {cfg.out}
                               [] OTHER -> {}
            IN
            /\ obstacle # "none" => Apart(cfg.src, cfg.out)
            /\ source_dir = cfg.src
            /\ output_dir = cfg.out
            /\ files = [p \in sources \cup blocking |->
                          IF p \in sources
                          THEN [content |-> ContentOf(RelativeTo(p, cfg.src)),
                                readable |-> RelativeTo(p, cfg.src) \notin unreadable]
                          ELSE [content |-> <<"o", "l", "d">>, readable |-> TRUE]]
            /\ dirs = {cfg.src} \cup DirsOf(sources \cup {cfg.src})
                          \cup blockdirs \cup DirsOf(blockdirs)
    /\ ignore_file \in IgnoreFiles
    /\ rules_file \in RunRulesFiles
    /\ placeholder = <<"*">>
    /\ maintain_length \in BOOLEAN
    /\ rules = <<>>
    /\ load_error = NoError
    /\ ignore_patterns = <<>>
    /\ pc = "main"
    /\ listing = <<>>
    /\ source_path = <<>>
    /\ files0 = files
    /\ dirs0 = dirs
    /\ dispatched = {}
    /\ attempted = <<>>
    /\ read_log = <<>>
    /\ written = <<>>
    /\ created = {}
    /\ failed = <<>>
    /\ vanished = {}
    /\ value = <<>>
    /\ stage = "none"
    /\ scrubbed = NotRun
    /\ result = NotRun
    /\ rerun = NotRun

idleVars == <<value, stage, scrubbed, result, rerun>>

\* A constructor that logs a failed load and goes on without rules.
ConstructIgnoringErrors ==
    /\ pc = "main"
    /\ LET With(loaded) ==
               /\ load_error' = loaded.error
               /\ rules' = loaded.rules
               /\ ignore_patterns' = LoadIgnorePatterns(ignore_file)
               /\ pc' = "constructed"
       IN With(LoadRules(rules_file))
    /\ UNCHANGED <<rules_file, placeholder, maintain_length, source_dir,
                   output_dir, ignore_file, files, dirs, listing, source_path,
                   logVars, idleVars>>

\* main up to LogSanitizer(config): __init__ loads the rules, which may
\* raise, and then the ignore patterns.
Construct ==
    /\ pc = "main"
    /\ LET With(loaded) ==
               /\ load_error' = loaded.error
               /\ IF loaded.error # NoError
                  THEN /\ pc' = "config_error"
                       /\ UNCHANGED <<rules, ignore_patterns>>
                  ELSE /\ pc' = "constructed"
                       /\ rules' = loaded.rules
                       /\ ignore_patterns' = LoadIgnorePatterns(ignore_file)
       IN With(LoadRules(rules_file))
    /\ UNCHANGED <<rules_file, placeholder, maintain_length, source_dir,
                   output_dir, ignore_file, files, dirs, listing, source_path,
                   logVars, idleVars>>

\* sanitise up to the loop: output_dir.mkdir, and the first step of the
\* generator source_files, which lists and sorts the source tree.
SanitiseBegin ==
    /\ pc = "constructed"
    /\ LET mk == Mkdir(files, dirs, output_dir)
           found == Rglob(files, dirs \cup mk.made, source_dir)
       IN
       /\ dirs' = dirs \cup mk.made
       /\ created' = created \cup mk.made
       /\ IF mk.ok
          THEN /\ pc' = "iterating"
               /\ listing' = SortPaths(found)
               /\ dispatched' =
                    {p \in found : /\ IsFile(files, p)
                                   /\ ~IsIgnored(p, source_dir, ignore_patterns)}
          ELSE /\ pc' = "raised"
               /\ UNCHANGED <<listing, dispatched>>
    /\ UNCHANGED <<loadVars, rules, placeholder, maintain_length, source_dir,
                   output_dir, ignore_file, ignore_patterns, files, source_path,
                   files0, dirs0, attempted, read_log, written, failed,
                   vanished, idleVars>>

\* source_files: the next listed path is not a regular file (a directory, or
\* a file deleted since the listing).
SkipNonFile ==
    /\ pc = "iterating"
    /\ listing # <<>>
    /\ ~IsFile(files, Head(listing))
    /\ listing' = Tail(listing)
    /\ UNCHANGED <<loadVars, rules, placeholder, maintain_length, source_dir,
                   output_dir, ignore_file, ignore_patterns, files, dirs, pc,
                   source_path, logVars, idleVars>>

\* source_files: the next listed file is ignored.
SkipIgnored ==
    /\ pc = "iterating"
    /\ listing # <<>>
    /\ IsFile(files, Head(listing))
    /\ IsIgnored(Head(listing), source_dir, ignore_patterns)
    /\ listing' = Tail(listing)
    /\ UNCHANGED <<loadVars, rules, placeholder, maintain_length, source_dir,
                   output_dir, ignore_file, ignore_patterns, files, dirs, pc,
                   source_path, logVars, idleVars>>

\* source_files yields the next listed file to the loop of sanitise.
YieldFile ==
    /\ pc = "iterating"
    /\ listing # <<>>
    /\ IsFile(files, Head(listing))
    /\ ~IsIgnored(Head(listing), source_dir, ignore_patterns)
    /\ source_path' = Head(listing)
    /\ listing' = Tail(listing)
    /\ attempted' = Append(attempted, Head(listing))
    /\ pc' = "processing"
    /\ UNCHANGED <<loadVars, rules, placeholder, maintain_length, source_dir,
                   output_dir, ignore_file, ignore_patterns, files, dirs,
                   files0, dirs0, dispatched, read_log, written, created,
                   failed, vanished, idleVars>>

\* The loop body of sanitise for source_path: make the destination's
\* directory, read the file as text, sanitise the text, write the copy.
\* Each step may raise, and nothing in sanitise catches it.
ProcessFile ==
    /\ pc = "processing"
    /\ LET destination == Destination(source_path, source_dir, output_dir)
           mk == Mkdir(files, dirs, Parent(destination))
           dirs1 == dirs \cup mk.made
           readable == IsFile(files, source_path) /\ files[source_path].readable
           writable == destination \notin dirs1
           Raise ==
               /\ pc' = "raised"
               /\ failed' = <<source_path>>
               /\ UNCHANGED <<files, written>>
           \* sanitized_content is what _sanitise_file(content) gave
           Write(sanitized_content) ==
               IF ~sanitized_content.raised /\ writable
               THEN /\ files' =
                         [p \in (DOMAIN files) \cup {destination} |->
                             IF p = destination
                             THEN [content |-> sanitized_content.text,
                                   readable |-> TRUE]
                             ELSE files[p]]
                    /\ written' =
                         Append(written, [path |-> destination,
                                          content |-> sanitized_content.text])
                    /\ pc' = "iterating"
                    /\ UNCHANGED failed
               ELSE Raise
           Read(content) ==
               Write(SanitiseFile(rules, content, placeholder,
                                  maintain_length))
       IN
       /\ dirs' = dirs1
       /\ created' = created \cup mk.made
       /\ read_log' = IF mk.ok /\ readable
                      THEN Append(read_log, source_path) ELSE read_log
       /\ IF mk.ok /\ readable
          THEN Read(ReadText(files[source_path].content))
          ELSE Raise
    /\ UNCHANGED <<loadVars, rules, placeholder, maintain_length, source_dir,
                   output_dir, ignore_file, ignore_patterns, listing,
                   source_path, files0, dirs0, dispatched, attempted, vanished,
                   idleVars>>

\* The generator is exhausted: sanitise returns.
SanitiseReturn ==
    /\ pc = "iterating"
    /\ listing = <<>>
    /\ pc' = "done"
    /\ UNCHANGED <<loadVars, rules, placeholder, maintain_length, source_dir,
                   output_dir, ignore_file, ignore_patterns, files, dirs,
                   listing, source_path, logVars, idleVars>>

\* The environment deletes a source file that sanitise has listed and not
\* read yet.
Vanish ==
    /\ pc \in {"iterating", "processing"}
    /\ Cardinality(vanished) < MaxVanish
    /\ \E p \in DOMAIN files :
        /\ p \in dispatched
        /\ \/ \E k \in 1..Len(listing) : listing[k] = p
           \/ pc = "processing" /\ p = source_path
        /\ files' = [q \in (DOMAIN files) \ {p} |-> files[q]]
        /\ vanished' = vanished \cup {p}
    /\ UNCHANGED <<loadVars, rules, placeholder, maintain_length, source_dir,
                   output_dir, ignore_file, ignore_patterns, dirs, pc, listing,
                   source_path, files0, dirs0, dispatched, attempted, read_log,
                   written, created, failed, idleVars>>

Next ==
    \/ Construct
    \/ SanitiseBegin
    \/ SkipNonFile
    \/ SkipIgnored
    \/ YieldFile
    \/ ProcessFile
    \/ SanitiseReturn
    \/ Vanish

Spec == RunInit /\ [][Next]_vars

-----------------------------------------------------------------------------
(* Properties of a run.                                                    *)

Range(seq) == {seq[k] : k \in 1..Len(seq)}

Returned == pc \in {"done", "raised"}

\* The copy of p that sanitise is to write: where, and what.
CopyOf(p) ==
    [path |-> output_dir \o RelativeTo(p, source_dir),
     content |-> SanitiseFile(rules, ReadText(files0[p].content), placeholder,
                              maintain_length).text]

\* C1, as stated, over separate source and output trees: when sanitise is
\* over, every enumerated, not ignored file other than the one whose
\* processing failed (and than one deleted under the run) has been read and
\* its sanitised copy written.
FailureIsLocal ==
    (Returned /\ Apart(source_dir, output_dir)) =>
        \A p \in dispatched :
            (p \notin Range(failed) /\ p \notin vanished) =>
                /\ p \in Range(read_log)
                /\ CopyOf(p) \in Range(written)

\* C4, as stated, over separate source and output trees: when sanitise is
\* over, every dispatched file (but one deleted under the run) has been
\* attempted exactly once, and the copy of every one that did not fail is at
\* its mirrored path.
AllDispatchedAttempted ==
    (Returned /\ Apart(source_dir, output_dir)) =>
        \A p \in dispatched \ vanished :
            /\ Cardinality({k \in 1..Len(attempted) : attempted[k] = p}) = 1
            /\ p \notin Range(failed) =>
                  /\ IsFile(files, CopyOf(p).path)
                  /\ files[CopyOf(p).path].content = CopyOf(p).content

\* The rules file cannot be loaded: it is missing, has no rule line, or has
\* a rule line that is not a regular expression.
ConfigInvalid ==
    \/ ~rules_file.exists
    \/ RuleLineNumbers = {}
    \/ \E i \in RuleLineNumbers : IsInvalidRegex(Strip(RulesFileLines[i]))

\* C2: a run whose rules file cannot be loaded ends in the constructor, with
\* no directory created, no source file listed or read and no file written.
ConfigFailureTouchesNothing ==
    (pc # "main" /\ ConfigInvalid) =>
        /\ pc = "config_error"
        /\ load_error # NoError
        /\ files = files0 /\ dirs = dirs0
        /\ created = {} /\ written = <<>> /\ read_log = <<>>
        /\ attempted = <<>> /\ dispatched = {}

\* The load failed on the second line of a rules file whose first line is a
\* rule, with source files waiting and no output directory.
ConfigFailureTouchesNothingWitness ==
    /\ pc = "config_error"
    /\ load_error = [kind |-> "ValueError: Invalid regex", line |-> 2]
    /\ Cardinality(DOMAIN files) = 3
    /\ output_dir \notin dirs

\* An ignore pattern matches the path relative to source_dir or the name.
MatchesAnIgnorePattern(p) ==
    \E pat \in Range(ignore_patterns) :
        \/ Fnmatch(PathStr(SubSeq(p, Len(source_dir) + 1, Len(p))), pat)
        \/ Fnmatch(p[Len(p)], pat)

\* The files under source_dir, before and during the run.
SourceFiles ==
    {p \in (DOMAIN files0) \cup (DOMAIN files) :
        IsPrefix(source_dir, p) /\ p # source_dir}

\* C3: a source file that an ignore pattern matches, by its relative path or
\* by its name, is never yielded by source_files and its mirrored path is
\* never written, so that it is in the output tree only if it was before.
IgnoredNeverInOutput ==
    \A p \in SourceFiles :
        MatchesAnIgnorePattern(p) =>
            LET mirrored == output_dir \o SubSeq(p, Len(source_dir) + 1, Len(p))
            IN
            /\ p \notin Range(attempted)
            /\ \A k \in 1..Len(written) : written[k].path # mirrored
            /\ IsFile(files, mirrored) => IsFile(files0, mirrored)

\* The pattern "a" ignored a by its path and s/a by its name only, and the
\* run copied b alone.
IgnoredNeverInOutputWitness ==
    /\ pc = "done"
    /\ ignore_patterns = <<<<"a">>>>
    /\ source_dir = <<CompS>> /\ output_dir = <<CompO>>
    /\ DOMAIN files0 = {<<CompS, CompA>>, <<CompS, CompB>>,
                         <<CompS, CompS, CompA>>}
    /\ DOMAIN files = (DOMAIN files0) \cup {<<CompO, CompB>>}
    /\ attempted = <<<<CompS, CompB>>>>

\* C5, as stated: whatever the configuration, sanitise writes no file and
\* creates no directory at or under source_dir.
SourceTreeReadOnly ==
    /\ \A k \in 1..Len(written) : ~IsPrefix(source_dir, written[k].path)
    /\ \A d \in created : ~IsPrefix(source_dir, d)

\* C5, amended: every write is under output_dir and every directory
\* created is output_dir, one of its missing ancestors, or under it; and
\* when neither of source_dir and output_dir is inside the other, none is
\* at or under source_dir, and the source tree stays as it was but for what
\* the environment deleted.
SourceTreeReadOnlyWhenApart ==
    /\ \A k \in 1..Len(written) :
          /\ IsPrefix(output_dir, written[k].path)
          /\ written[k].path # output_dir
    /\ \A d \in created :
          /\ IsPrefix(output_dir, d) \/ IsPrefix(d, output_dir)
          /\ d \notin dirs0
    /\ Apart(source_dir, output_dir) =>
          /\ SourceTreeReadOnly
          /\ \A p \in SourceFiles :
                /\ IsFile(files0, p)
                /\ IsFile(files, p) \/ p \in vanished
                /\ IsFile(files, p) => files[p] = files0[p]
          /\ \A d \in dirs \cup dirs0 :
                IsPrefix(source_dir, d) => d \in dirs /\ d \in dirs0

\* A finished run over separate trees, the output directory o/o without its
\* parent: it copied three files and made o, o/o and o/o/s.
SourceTreeReadOnlyWhenApartWitness ==
    /\ pc = "done"
    /\ Apart(source_dir, output_dir)
    /\ output_dir = <<CompO, CompO>>
    /\ Len(written) = 3
    /\ created = {<<CompO>>, output_dir, output_dir \o <<CompS>>}

=============================================================================
